---- MODULE Spec2Model ----
(***************************************************************************)
(* Model of the request-orchestration core of llm-teaching-service:        *)
(* the sliding-window rate limiters (src/domain/rate_limit/rate_limiter.py)*)
(* and the response caches (src/adapters/cache/redis_cache.py), in their   *)
(* in-memory and Redis implementations, the model router and the           *)
(* orchestrator TeachingService.ask_question                               *)
(* (src/domain/teaching/service.py) behind POST /api/v1/teach.  The        *)
(* Container picks the Redis pair, Firestore and the monitoring service    *)
(* when ENVIRONMENT == "production" and the in-memory services otherwise.  *)
(***************************************************************************)
EXTENDS Integers, Sequences, FiniteSets, TLC

\* ------------------------------------------------------------------------
\* Bounds of the model
\* ------------------------------------------------------------------------
MaxTime == 2
MaxLimit == 2
MaxWindow == 2
MaxCalls == 3
MaxInflight == 1
MaxCacheCalls == 2
MaxAsks == 2
MaxAsking == 2
MaxContentLength == 250
MaxSlack == 2
MaxHistory == 22

Identifiers == {"s1", "s2"}

VARIABLES
    is_production,   \* Container.is_production
    now,             \* the reading time.time() returns
    limit,           \* check_limit's limit argument
    window_seconds,  \* check_limit's window_seconds argument
    requests,        \* InMemoryRateLimiter.requests: identifier -> list of timestamps
    redis,           \* the Redis keyspace of RedisRateLimiter: key -> sorted set, expiry
    inflight,        \* per identifier, the get_remaining coroutines suspended at their second await
    admitted,        \* history: timestamps of the calls allowed since the identifier's last reset
    calls,           \* history: number of check_limit calls completed per identifier
    fresh,           \* history: reset_limit ran for the identifier and no check_limit since
    ncalls,          \* history: number of limiter calls started
    sequential,      \* history: no limiter call overlapped another call or a clock change
    others,          \* history: what the other identifiers had recorded before the last step
    last,            \* history: the limiter call the last step completed and what it returned
    cache,           \* InMemoryCacheService._cache: key -> response
    redis_strings,   \* the Redis keyspace of RedisCacheService: key -> payload, expiry
    hit_count,       \* _hit_count of the cache service the Container built
    miss_count,      \* _miss_count of the cache service the Container built
    written,         \* history: per key fields, the last response stored and when, with which ttl_seconds
    lookups,         \* history: number of get_teaching_response calls completed
    returned,        \* history: number of get_teaching_response calls that returned an entry
    ncache,          \* history: number of cache calls made
    lastc,           \* history: the cache call the last step completed and what it returned
    available_models, \* LLMConfiguration._models: the ids list_available_models() returns
    default_model,   \* LLMConfiguration.default_model
    routed,          \* history: the last _select_model call and what it returned
    asking,          \* the ask_question coroutines in flight: number -> where each is and what it holds
    nasks,           \* history: number of ask_question calls started
    conversations,   \* the conversations the database service holds, oldest first
    usage_metrics,   \* the usage records the database service holds, oldest first
    llm_calls,       \* the track_llm_call calls the monitoring service received
    generated,       \* history: number of provider.generate calls made
    outcomes,        \* history: per ask_question call, how it ended or that it is running
    done,            \* history: the ask_question step the last step ran and how it left the call
    computed         \* history: the last call of a pure helper of TeachingService, and its result

limiter_vars == <<is_production, now, limit, window_seconds, requests, redis,
                  inflight, admitted, calls, fresh, ncalls, sequential, others, last>>

cache_vars == <<cache, redis_strings, hit_count, miss_count, written, lookups,
                returned, ncache, lastc>>

router_vars == <<available_models, default_model, routed>>

service_vars == <<asking, nasks, conversations, usage_metrics, llm_calls,
                  generated, outcomes, done>>

helper_vars == <<computed>>

\* what the limiter and cache calls made on their own leave alone
rest_vars == <<router_vars, service_vars, helper_vars>>

vars == <<limiter_vars, cache_vars, rest_vars>>

\* ------------------------------------------------------------------------
\* Helpers on dicts (functions with a varying domain)
\* ------------------------------------------------------------------------
EmptyDict == [k \in {} |-> 0]

Put(d, k, v) == [x \in (DOMAIN d) \cup {k} |-> IF x = k THEN v ELSE d[x]]

Del(d, k) == [x \in (DOMAIN d) \ {k} |-> d[x]]

Times == 0..MaxTime

RECURSIVE SumOver(_, _)
SumOver(f, S) ==
    IF S = {} THEN 0
    ELSE LET x == CHOOSE y \in S : TRUE IN f[x] + SumOver(f, S \ {x})

\* number of allowed calls of the identifier with a timestamp in (t - w, t]
AdmittedIn(identifier, t, w) ==
    SumOver(admitted[identifier], {u \in Times : u > t - w /\ u <= t})

\* ------------------------------------------------------------------------
\* The Redis commands RedisRateLimiter issues, at server time `now`
\* ------------------------------------------------------------------------
NoExpiry == -1

\* a key that leaves the identifier out
RateLimitKeyShared(identifier) == <<"rate_limit:", "">>

\* the key f"rate_limit:{identifier}"
RateLimitKey(identifier) == <<"rate_limit:", identifier>>

\* the sorted-set member str(now)
ScoreMember(t) == <<"str", t>>

\* a key whose time to live has run out is gone for every command
Purge(store, key) ==
    IF key \in DOMAIN store /\ store[key].expire_at # NoExpiry
                            /\ store[key].expire_at <= now
    THEN Del(store, key) ELSE store

ZsetOf(store, key) ==
    IF key \in DOMAIN Purge(store, key) THEN store[key].zset ELSE EmptyDict

\* ZREMRANGEBYSCORE key min max: both ends inclusive; an emptied key is deleted
Zremrangebyscore(store, key, min, max) ==
    LET s == Purge(store, key)
        z == ZsetOf(store, key)
        kept == {m \in DOMAIN z : ~(z[m] >= min /\ z[m] <= max)}
    IN IF key \notin DOMAIN s THEN s
    ELSE IF kept = {} THEN Del(s, key)
    ELSE [s EXCEPT ![key].zset = [m \in kept |-> z[m]]]

Zcard(store, key) == Cardinality(DOMAIN ZsetOf(store, key))

\* ZADD key score member: a member already present only has its score updated
Zadd(store, key, member, score) ==
    LET s == Purge(store, key)
    IN IF key \in DOMAIN s
       THEN [s EXCEPT ![key].zset = Put(s[key].zset, member, score)]
       ELSE Put(s, key, [zset |-> Put(EmptyDict, member, score),
                         expire_at |-> NoExpiry])

Expire(store, key, seconds) ==
    LET s == Purge(store, key)
    IN IF key \in DOMAIN s
       THEN [s EXCEPT ![key].expire_at = now + seconds]
       ELSE s

Delete(store, key) == IF key \in DOMAIN store THEN Del(store, key) ELSE store

\* ------------------------------------------------------------------------
\* InMemoryRateLimiter
\* ------------------------------------------------------------------------
\* a window whose lower bound is inclusive
RecentRequestsInclusive(timestamps, window_start) ==
    SelectSeq(timestamps, LAMBDA ts : ts >= window_start)

\* the list comprehension [ts for ts in ... if ts > window_start]
RecentRequests(timestamps, window_start) ==
    SelectSeq(timestamps, LAMBDA ts : ts > window_start)

\* the admission test `len(...) >= limit` / `current_count >= limit`
LimitReached(current_count, lim) == current_count >= lim

\* a remaining count that is one too high
RemainingOneMore(lim, current_count) ==
    IF lim - current_count + 1 > 0 THEN lim - current_count + 1 ELSE 0

\* max(0, limit - current_count)
Remaining(lim, current_count) ==
    IF lim - current_count > 0 THEN lim - current_count ELSE 0

\* the outcome a check_limit call for the identifier would have right now
NextCheckAllowed(identifier) ==
    IF is_production
    THEN ~LimitReached(
             Zcard(Zremrangebyscore(redis, RateLimitKey(identifier), 0,
                                    now - window_seconds),
                   RateLimitKey(identifier)), limit)
    ELSE ~LimitReached(
             Len(RecentRequests(IF identifier \in DOMAIN requests
                                THEN requests[identifier] ELSE <<>>,
                                now - window_seconds)), limit)

\* what the limiters have recorded for the identifier
Recorded(identifier) ==
    <<identifier \in DOMAIN requests,
      IF identifier \in DOMAIN requests THEN requests[identifier] ELSE <<>>,
      RateLimitKey(identifier) \in DOMAIN redis,
      IF RateLimitKey(identifier) \in DOMAIN redis
      THEN redis[RateLimitKey(identifier)] ELSE <<>> >>

\* what a step made for the identifier leaves untouched: the records and the
\* next outcome of every other identifier, as they were before the step
Others(identifier) ==
    [b \in Identifiers |->
        IF b = identifier THEN <<>>
        ELSE <<Recorded(b), NextCheckAllowed(b)>>]

NoCall == [op |-> "none", identifier |-> "", now |-> 0, allowed |-> FALSE,
           retry_after |-> 0, remaining |-> 0, admitted_before |-> 0,
           prior_calls |-> 0, after_reset |-> FALSE, recorded_before |-> <<>>,
           pruned_at |-> -1]

\* what a completed check_limit call leaves in the history variables
CheckLimitHistory(identifier, t, allowed) ==
    /\ last' = [op |-> "check_limit", identifier |-> identifier, now |-> t,
                allowed |-> allowed,
                retry_after |-> IF allowed THEN 0 ELSE window_seconds,
                remaining |-> 0,
                admitted_before |-> AdmittedIn(identifier, t, window_seconds),
                prior_calls |-> calls[identifier],
                after_reset |-> fresh[identifier],
                recorded_before |-> Recorded(identifier),
                pruned_at |-> t]
    /\ admitted' = IF allowed
                   THEN [admitted EXCEPT ![identifier][t] = @ + 1]
                   ELSE admitted
    /\ calls' = [calls EXCEPT ![identifier] = @ + 1]
    /\ fresh' = [fresh EXCEPT ![identifier] = FALSE]
    /\ others' = Others(identifier)

GetRemainingHistory(identifier, t, remaining) ==
    /\ last' = [NoCall EXCEPT !.op = "get_remaining", !.identifier = identifier,
                              !.now = t, !.remaining = remaining,
                              !.admitted_before = AdmittedIn(identifier, t, window_seconds),
                              !.prior_calls = calls[identifier],
                              !.after_reset = fresh[identifier],
                              !.recorded_before = Recorded(identifier),
                              !.pruned_at =
                                  IF ~is_production THEN t
                                  ELSE IF last.op = "zremrangebyscore"
                                          /\ last.identifier = identifier
                                          /\ last.now = now
                                       THEN now ELSE -1]
    /\ others' = Others(identifier)
    /\ UNCHANGED <<admitted, calls, fresh>>

ResetLimitHistory(identifier) ==
    /\ last' = [NoCall EXCEPT !.op = "reset_limit", !.identifier = identifier,
                              !.now = now, !.prior_calls = calls[identifier]]
    /\ admitted' = [admitted EXCEPT ![identifier] = [t \in Times |-> 0]]
    /\ fresh' = [fresh EXCEPT ![identifier] = TRUE]
    /\ others' = Others(identifier)
    /\ UNCHANGED calls

InMemoryCheckLimit(identifier) ==
    /\ ~is_production
    /\ ncalls < MaxCalls
    /\ ncalls' = ncalls + 1
    /\ LET window_start == now - window_seconds
           existing == IF identifier \in DOMAIN requests
                       THEN requests[identifier] ELSE <<>>
           recent == RecentRequests(existing, window_start)
           allowed == ~LimitReached(Len(recent), limit)
       IN /\ requests' = Put(requests, identifier,
                             IF allowed THEN Append(recent, now) ELSE recent)
          /\ CheckLimitHistory(identifier, now, allowed)
    /\ UNCHANGED <<is_production, now, limit, window_seconds, redis, inflight, sequential>>
    /\ UNCHANGED cache_vars
    /\ UNCHANGED rest_vars

InMemoryGetRemaining(identifier) ==
    /\ ~is_production
    /\ ncalls < MaxCalls
    /\ ncalls' = ncalls + 1
    /\ LET window_start == now - window_seconds
           remaining == IF identifier \notin DOMAIN requests
                        THEN limit
                        ELSE Remaining(limit,
                                 Len(RecentRequests(requests[identifier], window_start)))
       IN GetRemainingHistory(identifier, now, remaining)
    /\ UNCHANGED <<is_production, now, limit, window_seconds, requests, redis, inflight, sequential>>
    /\ UNCHANGED cache_vars
    /\ UNCHANGED rest_vars

\* reset_limit with its membership test inverted: the entry is never deleted
InMemoryResetLimitInverted(identifier) ==
    /\ ~is_production
    /\ ncalls < MaxCalls
    /\ ncalls' = ncalls + 1
    /\ requests' = IF identifier \notin DOMAIN requests
                   THEN Del(requests, identifier) ELSE requests
    /\ ResetLimitHistory(identifier)
    /\ UNCHANGED <<is_production, now, limit, window_seconds, redis, inflight, sequential>>
    /\ UNCHANGED cache_vars
    /\ UNCHANGED rest_vars

InMemoryResetLimit(identifier) ==
    /\ ~is_production
    /\ ncalls < MaxCalls
    /\ ncalls' = ncalls + 1
    /\ requests' = IF identifier \in DOMAIN requests
                   THEN Del(requests, identifier) ELSE requests
    /\ ResetLimitHistory(identifier)
    /\ UNCHANGED <<is_production, now, limit, window_seconds, redis, inflight, sequential>>
    /\ UNCHANGED cache_vars
    /\ UNCHANGED rest_vars

\* ------------------------------------------------------------------------
\* RedisRateLimiter
\* ------------------------------------------------------------------------
\* no coroutine of the limiter is suspended at an await
NoneInflight == \A identifier \in Identifiers : inflight[identifier] = 0

\* number of get_remaining coroutines suspended at their second await
Suspended == SumOver(inflight, Identifiers)

\* the MULTI/EXEC pipeline of check_limit: zremrangebyscore, zcard, zadd, expire
CheckLimitPipeline(store, key, t, window_start) ==
    LET s1 == Zremrangebyscore(store, key, 0, window_start)
        s2 == Zadd(s1, key, ScoreMember(t), t)
        s3 == Expire(s2, key, window_seconds)
    IN [store |-> s3, results |-> <<0, Zcard(s1, key), 0, 0>>]

\* check_limit: the coroutine read time.time() = t before it was suspended at
\* `await pipe.execute()`; the pipeline runs on the server at time now >= t
\* and the coroutine resumes with its results
RedisCheckLimit(identifier, t) ==
    /\ is_production
    /\ ncalls < MaxCalls
    /\ ncalls' = ncalls + 1
    /\ LET key == RateLimitKey(identifier)
           window_start == t - window_seconds
           out == CheckLimitPipeline(redis, key, t, window_start)
           current_count == out.results[2]
           allowed == ~LimitReached(current_count, limit)
       IN /\ redis' = out.store
          /\ CheckLimitHistory(identifier, t, allowed)
    /\ sequential' = (sequential /\ t = now /\ NoneInflight)
    /\ UNCHANGED <<is_production, now, limit, window_seconds, requests, inflight>>
    /\ UNCHANGED cache_vars
    /\ UNCHANGED rest_vars

\* get_remaining up to its second await: the coroutine read time.time() = t,
\* then `await self.redis.zremrangebyscore(key, 0, window_start)` runs at time now
RedisGetRemainingZrem(identifier, t) ==
    /\ is_production
    /\ Suspended < MaxInflight
    /\ ncalls < MaxCalls
    /\ ncalls' = ncalls + 1
    /\ redis' = Zremrangebyscore(redis, RateLimitKey(identifier), 0,
                                 t - window_seconds)
    /\ inflight' = [inflight EXCEPT ![identifier] = @ + 1]
    /\ sequential' = (sequential /\ t = now /\ NoneInflight)
    /\ last' = [NoCall EXCEPT !.op = "zremrangebyscore",
                              !.identifier = identifier, !.now = t,
                              !.recorded_before = Recorded(identifier),
                              !.pruned_at = t]
    /\ others' = Others(identifier)
    /\ UNCHANGED <<is_production, now, limit, window_seconds, requests,
                   admitted, calls, fresh>>
    /\ UNCHANGED cache_vars
    /\ UNCHANGED rest_vars

\* current_count = await self.redis.zcard(key); return max(0, limit - current_count)
RedisGetRemainingZcard(identifier) ==
    /\ is_production
    /\ inflight[identifier] > 0
    /\ LET current_count == Zcard(redis, RateLimitKey(identifier))
       IN GetRemainingHistory(identifier, now, Remaining(limit, current_count))
    /\ inflight' = [inflight EXCEPT ![identifier] = @ - 1]
    /\ UNCHANGED <<is_production, now, limit, window_seconds, requests, redis,
                   ncalls, sequential>>
    /\ UNCHANGED cache_vars
    /\ UNCHANGED rest_vars

\* await self.redis.delete(key)
RedisResetLimit(identifier) ==
    /\ is_production
    /\ ncalls < MaxCalls
    /\ ncalls' = ncalls + 1
    /\ redis' = Delete(redis, RateLimitKey(identifier))
    /\ ResetLimitHistory(identifier)
    /\ sequential' = (sequential /\ NoneInflight)
    /\ UNCHANGED <<is_production, now, limit, window_seconds, requests, inflight>>
    /\ UNCHANGED cache_vars
    /\ UNCHANGED rest_vars

\* ------------------------------------------------------------------------
\* Requests, responses and cache keys
\* ------------------------------------------------------------------------
\* an Optional value: None, or the value wrapped
None == <<>>

Some(v) == <<v>>

Subjects == {"math", "science"}

GradeLevels == {"elementary", "middle_school"}

ModelPreferences == {None, Some(""), Some("default"), Some("phi3:mini")}

Questions == {"What is 2+2?", "What is 2+3?"}

\* the fields of a TeachingRequest the caches read
AllRequests == [subject : Subjects, grade_level : GradeLevels,
                model_preference : ModelPreferences, question : Questions]

\* the request of the unit tests, and the requests that differ from it in one
\* field or in the spelling of the default model
BaseRequest == [subject |-> "math", grade_level |-> "elementary",
                model_preference |-> None, question |-> "What is 2+2?"]

Requests == {BaseRequest,
             [BaseRequest EXCEPT !.subject = "science"],
             [BaseRequest EXCEPT !.grade_level = "middle_school"],
             [BaseRequest EXCEPT !.model_preference = Some("default")],
             [BaseRequest EXCEPT !.model_preference = Some("phi3:mini")],
             [BaseRequest EXCEPT !.question = "What is 2+3?"]}

\* the fields of a TeachingResponse: two strings and an integer
Responses == {[answer |-> "4", model_used |-> "phi3-mini", tokens_used |-> 10],
              [answer |-> "5", model_used |-> "phi3-mini", tokens_used |-> 11]}

TtlArguments == {None, Some(0), Some(1)}

default_ttl == 3600

\* hashlib.sha256(question.encode()).hexdigest()[:16]
QuestionHash(question) ==
    CASE question = "What is 2+2?" -> "52cb6b5e4a038af1"
      [] question = "What is 2+3?" -> "f574924a4d93e5f1"

\* request.model_preference or "default"
OrDefault(model_preference) ==
    IF model_preference = None THEN "default"
    ELSE IF model_preference[1] = "" THEN "default"
    ELSE model_preference[1]

\* ttl_seconds or self.default_ttl
OrDefaultTtl(ttl_seconds) ==
    IF ttl_seconds = None THEN default_ttl
    ELSE IF ttl_seconds[1] = 0 THEN default_ttl
    ELSE ttl_seconds[1]

\* a key that leaves the model out
GenerateCacheKeyNoModel(request) ==
    "teaching:" \o request.subject \o ":" \o request.grade_level
                \o ":" \o QuestionHash(request.question)

\* a key that names the student as well
GenerateCacheKeyPerStudent(request) ==
    "teaching:" \o request.student_id \o ":" \o request.subject
                \o ":" \o request.grade_level
                \o ":" \o OrDefault(request.model_preference)
                \o ":" \o QuestionHash(request.question)

\* f"teaching:{subject}:{grade_level}:{model}:{question_hash}"
GenerateCacheKey(request) ==
    "teaching:" \o request.subject \o ":" \o request.grade_level
                \o ":" \o OrDefault(request.model_preference)
                \o ":" \o QuestionHash(request.question)

\* the four fields the spec calls the fingerprint of a request
Fields(request) ==
    <<request.subject, request.grade_level,
      OrDefault(request.model_preference), request.question>>

\* ------------------------------------------------------------------------
\* The payload RedisCacheService stores: JSON text, as its sequence of tokens
\* ------------------------------------------------------------------------
IntLiterals == 0..20

\* the fields of a TeachingResponse the model carries, in the order the class
\* declares them; the first three are the ones the cache tests build
FieldOrder == <<"answer", "model_used", "tokens_used", "estimated_cost",
                "confidence", "source", "processing_time_ms",
                "follow_up_suggestions", "learning_resources">>

\* the numeric ones: tokens, cost in thousandths of a cent, confidence in
\* tenths, processing time in clock units; the two lists of strings are one
\* token each
IntFields == {"tokens_used", "estimated_cost", "confidence", "processing_time_ms"}

RECURSIVE DumpFields(_, _)
DumpFields(response, i) ==
    IF i > Len(FieldOrder) THEN <<>>
    ELSE LET name == FieldOrder[i]
         IN (IF name \in DOMAIN response
             THEN <<name, IF name \in IntFields THEN ToString(response[name])
                          ELSE response[name]>>
             ELSE <<>>) \o DumpFields(response, i + 1)

\* json.dumps(response.model_dump(), default=str)
JsonDumps(response) == <<"{">> \o DumpFields(response, 1) \o <<"}">>

\* json.loads(cached_data): an object becomes a dict, anything else raises
JsonLoads(text) ==
    IF /\ Len(text) >= 2
       /\ text[1] = "{"
       /\ text[Len(text)] = "}"
       /\ (Len(text) - 2) % 2 = 0
    THEN LET n == (Len(text) - 2) \div 2
             names == {text[2 * i] : i \in 1..n}
         IN [ok |-> TRUE,
             value |-> [k \in names |->
                          text[1 + 2 * (CHOOSE i \in 1..n : text[2 * i] = k)]]]
    ELSE [ok |-> FALSE, value |-> EmptyDict]

\* TeachingResponse(**response_dict): raises unless the required fields are
\* there and the numeric ones hold numbers
TeachingResponseFrom(response_dict) ==
    LET names == DOMAIN response_dict
        known == {FieldOrder[i] : i \in 1..Len(FieldOrder)}
    IN IF /\ {"answer", "model_used", "tokens_used"} \subseteq names
          /\ \A k \in names \cap IntFields :
                 \E n \in IntLiterals : ToString(n) = response_dict[k]
       THEN [ok |-> TRUE,
             value |-> [k \in names \cap known |->
                          IF k \in IntFields
                          THEN CHOOSE n \in IntLiterals : ToString(n) = response_dict[k]
                          ELSE response_dict[k]]]
       ELSE [ok |-> FALSE, value |-> EmptyDict]

\* lines 71-72 of get_teaching_response
Decode(cached_data) ==
    IF JsonLoads(cached_data).ok
    THEN TeachingResponseFrom(JsonLoads(cached_data).value)
    ELSE [ok |-> FALSE, value |-> EmptyDict]

\* payloads in the keyspace that set_teaching_response did not write:
\* text that is no JSON, an object without the fields, the empty string
ForeignPayloads == {<<"not json">>, <<"{", "}">>, <<>>}

\* ------------------------------------------------------------------------
\* The Redis commands RedisCacheService issues, at server time `now`
\* ------------------------------------------------------------------------
\* GET key: None for a key that is absent or whose time to live has run out
Get(store, key) ==
    IF key \in DOMAIN store /\ (store[key].expire_at = NoExpiry
                                \/ store[key].expire_at > now)
    THEN Some(store[key].value) ELSE None

\* SETEX key seconds value
Setex(store, key, seconds, value) ==
    Put(store, key, [value |-> value, expire_at |-> now + seconds])

\* `if cached_data:` is false for None and for the empty string
Truthy(cached_data) ==
    IF cached_data = None THEN FALSE ELSE cached_data[1] # <<>>

\* an exception that is not caught leaves the call
PropagatesUncaught(exception) == exception

\* `except Exception as e: print(...)`: nothing leaves the call
Propagates(exception) == FALSE

\* ------------------------------------------------------------------------
\* History of the cache calls
\* ------------------------------------------------------------------------
NoCacheCall == [op |-> "none", fields |-> <<>>, result |-> None,
                failed |-> FALSE, raised |-> FALSE, hit_before |-> 0,
                miss_before |-> 0, store_before |-> EmptyDict,
                pattern |-> "", deleted |-> 0]

GetHistory(request, result, failed, raised) ==
    /\ lastc' = [op |-> "get", fields |-> Fields(request), result |-> result,
                 failed |-> failed, raised |-> raised,
                 hit_before |-> hit_count, miss_before |-> miss_count,
                 store_before |-> EmptyDict, pattern |-> "", deleted |-> 0]
    /\ lookups' = lookups + 1
    /\ returned' = IF result # None THEN returned + 1 ELSE returned
    /\ ncache' = ncache + 1
    /\ UNCHANGED written

SetHistory(request, response, ttl_seconds, failed, raised) ==
    /\ lastc' = [op |-> "set", fields |-> Fields(request), result |-> None,
                 failed |-> failed, raised |-> raised,
                 hit_before |-> hit_count, miss_before |-> miss_count,
                 store_before |-> IF failed THEN redis_strings ELSE EmptyDict,
                 pattern |-> "", deleted |-> 0]
    /\ written' = IF failed THEN written
                  ELSE Put(written, Fields(request),
                           [response |-> response, at |-> now,
                            ttl_seconds |-> ttl_seconds])
    /\ ncache' = ncache + 1
    /\ UNCHANGED <<lookups, returned>>

\* ------------------------------------------------------------------------
\* InMemoryCacheService
\* ------------------------------------------------------------------------
InMemoryGetTeachingResponse(request) ==
    /\ ~is_production
    /\ ncache < MaxCacheCalls
    /\ LET cache_key == GenerateCacheKey(request)
       IN IF cache_key \in DOMAIN cache
          THEN /\ hit_count' = hit_count + 1
               /\ miss_count' = miss_count
               /\ GetHistory(request, Some(cache[cache_key]), FALSE, FALSE)
          ELSE /\ miss_count' = miss_count + 1
               /\ hit_count' = hit_count
               /\ GetHistory(request, None, FALSE, FALSE)
    /\ UNCHANGED <<cache, redis_strings>>
    /\ UNCHANGED limiter_vars
    /\ UNCHANGED rest_vars

InMemorySetTeachingResponse(request, response, ttl_seconds) ==
    /\ ~is_production
    /\ ncache < MaxCacheCalls
    /\ cache' = Put(cache, GenerateCacheKey(request), response)
    /\ SetHistory(request, response, ttl_seconds, FALSE, FALSE)
    /\ UNCHANGED <<redis_strings, hit_count, miss_count>>
    /\ UNCHANGED limiter_vars
    /\ UNCHANGED rest_vars

\* ------------------------------------------------------------------------
\* RedisCacheService; `fails` says that the await on the Redis client raises
\* because the store cannot be reached, and then the command is not run
\* ------------------------------------------------------------------------
RedisGetTeachingResponse(request, fails) ==
    /\ is_production
    /\ ncache < MaxCacheCalls
    /\ LET cache_key == GenerateCacheKey(request)
           cached_data == Get(redis_strings, cache_key)
           hit == ~fails /\ Truthy(cached_data)
           decoded == IF hit THEN Decode(cached_data[1])
                      ELSE [ok |-> FALSE, value |-> EmptyDict]
           exception == fails \/ (hit /\ ~decoded.ok)
           result == IF hit /\ decoded.ok THEN Some(decoded.value) ELSE None
       IN /\ hit_count' = IF hit THEN hit_count + 1 ELSE hit_count
          /\ miss_count' = IF exception \/ ~hit THEN miss_count + 1 ELSE miss_count
          /\ GetHistory(request, result, fails, Propagates(exception))
    /\ UNCHANGED <<cache, redis_strings>>
    /\ UNCHANGED limiter_vars
    /\ UNCHANGED rest_vars

RedisSetTeachingResponse(request, response, ttl_seconds, fails) ==
    /\ is_production
    /\ ncache < MaxCacheCalls
    /\ LET cache_key == GenerateCacheKey(request)
           ttl == OrDefaultTtl(ttl_seconds)
           cached_data == JsonDumps(response)
       IN redis_strings' = IF fails THEN redis_strings
                           ELSE Setex(redis_strings, cache_key, ttl, cached_data)
    /\ SetHistory(request, response, ttl_seconds, fails, Propagates(fails))
    /\ UNCHANGED <<cache, hit_count, miss_count>>
    /\ UNCHANGED limiter_vars
    /\ UNCHANGED rest_vars

\* ------------------------------------------------------------------------
\* invalidate_cache
\* ------------------------------------------------------------------------
Patterns == {"teaching:math:*", "teaching:*:elementary:*", "math", "*"}

\* pattern.replace("*", "")
RECURSIVE RemoveStars(_)
RemoveStars(pattern) ==
    IF pattern = "" THEN ""
    ELSE IF Head(pattern) = "*" THEN RemoveStars(Tail(pattern))
    ELSE Head(pattern) \o RemoveStars(Tail(pattern))

\* the test `sub in k` on strings
Contains(k, sub) ==
    \E i \in 1..(Len(k) - Len(sub) + 1) : SubSeq(k, i, i + Len(sub) - 1) = sub

\* the glob matching of SCAN ... MATCH pattern: * is any run of characters,
\* ? is any one character, every other character of these patterns is itself
RECURSIVE GlobMatch(_, _)
GlobMatch(pattern, key) ==
    IF pattern = "" THEN key = ""
    ELSE IF Head(pattern) = "*"
         THEN GlobMatch(Tail(pattern), key)
              \/ (key # "" /\ GlobMatch(pattern, Tail(key)))
    ELSE /\ key # ""
         /\ (Head(pattern) = "?" \/ Head(pattern) = Head(key))
         /\ GlobMatch(Tail(pattern), Tail(key))

\* the key of the requests that have these four fields
KeyOfFields(fields) ==
    GenerateCacheKey([subject |-> fields[1], grade_level |-> fields[2],
                      model_preference |-> Some(fields[3]),
                      question |-> fields[4]])

\* the keys of the store that a lookup can still find
LiveKeys(store) ==
    IF is_production THEN {k \in DOMAIN store : Get(store, k) # None}
    ELSE DOMAIN store

InvalidateHistory(pattern, store, keys_deleted, deleted, failed) ==
    /\ lastc' = [NoCacheCall EXCEPT !.op = "invalidate", !.pattern = pattern,
                                    !.deleted = deleted, !.failed = failed,
                                    !.hit_before = hit_count,
                                    !.miss_before = miss_count,
                                    !.store_before = store]
    /\ written' = [f \in {g \in DOMAIN written : KeyOfFields(g) \notin keys_deleted}
                      |-> written[f]]
    /\ ncache' = ncache + 1
    /\ UNCHANGED <<lookups, returned>>

InMemoryInvalidateCache(pattern) ==
    /\ ~is_production
    /\ ncache < MaxCacheCalls
    /\ LET keys_to_delete == {k \in DOMAIN cache : Contains(k, RemoveStars(pattern))}
       IN /\ cache' = [k \in DOMAIN cache \ keys_to_delete |-> cache[k]]
          /\ InvalidateHistory(pattern, cache, keys_to_delete,
                               Cardinality(keys_to_delete), FALSE)
    /\ UNCHANGED <<redis_strings, hit_count, miss_count>>
    /\ UNCHANGED limiter_vars
    /\ UNCHANGED rest_vars

\* the SCAN loop of a keyspace this small is one SCAN and one DEL
RedisInvalidateCache(pattern, fails) ==
    /\ is_production
    /\ ncache < MaxCacheCalls
    /\ LET keys == IF fails THEN {}
                   ELSE {k \in LiveKeys(redis_strings) : GlobMatch(pattern, k)}
       IN /\ redis_strings' = [k \in DOMAIN redis_strings \ keys |-> redis_strings[k]]
          /\ InvalidateHistory(pattern, redis_strings, keys, Cardinality(keys), fails)
    /\ UNCHANGED <<cache, hit_count, miss_count>>
    /\ UNCHANGED limiter_vars
    /\ UNCHANGED rest_vars

\* another writer of the shared Redis keyspace leaves a payload under a key
ForeignSet(request, payload) ==
    /\ is_production
    /\ ncache < MaxCacheCalls
    /\ ncache' = ncache + 1
    /\ redis_strings' = Put(redis_strings, GenerateCacheKey(request),
                            [value |-> payload, expire_at |-> NoExpiry])
    /\ written' = Del(written, Fields(request))
    /\ lastc' = NoCacheCall
    /\ UNCHANGED <<cache, hit_count, miss_count, lookups, returned>>
    /\ UNCHANGED limiter_vars
    /\ UNCHANGED rest_vars

\* ------------------------------------------------------------------------
\* TeachingService._select_model
\* ------------------------------------------------------------------------
\* a text of n characters
RECURSIVE Text(_)
Text(n) ==
    IF n = 0 THEN ""
    ELSE IF n % 2 = 0 THEN Text(n \div 2) \o Text(n \div 2)
    ELSE "x" \o Text(n - 1)

ModelIds == {"phi3-mini-educational", "llama3-8b-advanced", "gpt-4o"}

\* the fields of a TeachingRequest that _select_model reads
RoutingRequests ==
    [model_preference : {None, Some(""), Some("gpt-4o"), Some("llama3-8b-advanced")},
     question : {Text(500), Text(501)},
     additional_context : {None, Some(EmptyDict), Some([k \in {"topic"} |-> "algebra"])},
     subject : {"math", "physics", "chemistry", "computer_science"},
     grade_level : {"high_school", "college"}]

\* bool(x) of an Optional[str]
BoolStr(x) == IF x = None THEN FALSE ELSE x[1] # ""

\* bool(x) of an Optional[Dict]
BoolDict(x) == IF x = None THEN FALSE ELSE DOMAIN x[1] # {}

advanced_subjects == {"physics", "chemistry", "computer_science"}

\* routing in which the heuristics are tried before the preference
SelectModelHeuristicsFirst(request, available, default) ==
    LET question_length == Len(request.question)
        has_context == BoolDict(request.additional_context)
        is_advanced == request.subject \in advanced_subjects
        is_college == request.grade_level = "college"
        is_complex == question_length > 500 \/ has_context \/ is_college
    IN IF is_complex /\ is_advanced /\ "llama3-8b-advanced" \in available
       THEN "llama3-8b-advanced"
       ELSE IF BoolStr(request.model_preference)
               /\ request.model_preference[1] \in available
       THEN request.model_preference[1]
       ELSE default

SelectModel(request, available, default) ==
    IF BoolStr(request.model_preference)
       /\ request.model_preference[1] \in available
    THEN request.model_preference[1]
    ELSE LET question_length == Len(request.question)
             has_context == BoolDict(request.additional_context)
             is_advanced == request.subject \in advanced_subjects
             is_college == request.grade_level = "college"
             is_complex == question_length > 500 \/ has_context \/ is_college
         IN IF is_complex /\ is_advanced /\ "llama3-8b-advanced" \in available
            THEN "llama3-8b-advanced"
            ELSE default

NoRoute == [op |-> "none", request |-> <<>>, model_id |-> "",
            available_before |-> {}, default_before |-> ""]

\* one call of _select_model
SelectModelCall(request) ==
    /\ routed' = [op |-> "select", request |-> request,
                  model_id |-> SelectModel(request, available_models, default_model),
                  available_before |-> available_models,
                  default_before |-> default_model]
    /\ UNCHANGED <<available_models, default_model>>
    /\ UNCHANGED <<limiter_vars, cache_vars, service_vars, helper_vars>>

\* the entries of the store the Container built
CacheStore == IF is_production THEN redis_strings ELSE cache

\* ------------------------------------------------------------------------
\* The services TeachingService.ask_question calls, as the Container built
\* them: Redis limiter and cache, Firestore and MonitoringService in
\* production; the in-memory ones and no monitoring otherwise
\* ------------------------------------------------------------------------
\* what the students send along with a question: the first nothing, the
\* others a context and the conversation so far
ContextOf(student_id) ==
    IF student_id = "s1" THEN None ELSE Some([k \in {"topic"} |-> "algebra"])

HistoryOf(student_id) ==
    IF student_id = "s1" THEN <<>>
    ELSE <<[role |-> "user", content |-> "What is 1+1?"],
           [role |-> "assistant", content |-> "1+1 is 2."]>>

\* the requests ask_question is called with
AskRequests ==
    {[student_id |-> s, subject |-> r.subject, grade_level |-> r.grade_level,
      model_preference |-> r.model_preference, question |-> r.question,
      additional_context |-> ContextOf(s),
      conversation_history |-> HistoryOf(s)] :
        s \in Identifiers, r \in {BaseRequest, [BaseRequest EXCEPT !.subject = "science"]}}

\* what provider.generate returns: an LLMResponse with its content, tokens and cost
LLMResponses == {[content |-> " 2+2 is 4. ", tokens_used |-> 10, cost |-> 1],
                 [content |-> Text(50), tokens_used |-> 11, cost |-> 2]}

\* an exception: its class, str(e), and the attributes some classes add
Exc(class, message) ==
    [class |-> class, message |-> message, retry_after |-> 0, status_code |-> 0]

\* what provider.generate raises: ProviderError with the text of the HTTP failure
ProviderErrors == {Exc("ProviderError", "Ollama HTTP error: 500"),
                   Exc("ProviderError", "Ollama HTTP error: 503")}

\* what a Firestore write raises when the database cannot be reached
DatabaseError == Exc("ServiceUnavailable", "503 failed to connect")

\* a rejection that carries no retry hint
RateLimitExceededNoHint(lim, w) ==
    [class |-> "RateLimitExceeded",
     message |-> "Rate limit exceeded. Limit: " \o ToString(lim)
                 \o " requests per " \o ToString(w) \o " seconds",
     retry_after |-> 0, status_code |-> 0]

\* RateLimitExceeded(f"Rate limit exceeded. Limit: {limit} requests per
\* {window_seconds} seconds", retry_after=window_seconds)
RateLimitExceeded(lim, w) ==
    [class |-> "RateLimitExceeded",
     message |-> "Rate limit exceeded. Limit: " \o ToString(lim)
                 \o " requests per " \o ToString(w) \o " seconds",
     retry_after |-> w, status_code |-> 0]

\* an admission check that admits without recording the call
CheckLimitUnrecorded(identifier) ==
    [allowed |-> TRUE, requests |-> requests, redis |-> redis]

\* rate_limiter.check_limit(identifier, limit, window_seconds): whether the
\* call is allowed, and the limiter's state after it
CheckLimit(identifier) ==
    IF is_production
    THEN LET out == CheckLimitPipeline(redis, RateLimitKey(identifier), now,
                                       now - window_seconds)
         IN [allowed |-> ~LimitReached(out.results[2], limit),
             requests |-> requests, redis |-> out.store]
    ELSE LET existing == IF identifier \in DOMAIN requests
                         THEN requests[identifier] ELSE <<>>
             recent == RecentRequests(existing, now - window_seconds)
             allowed == ~LimitReached(Len(recent), limit)
         IN [allowed |-> allowed,
             requests |-> Put(requests, identifier,
                              IF allowed THEN Append(recent, now) ELSE recent),
             redis |-> redis]

\* a lookup that finds nothing
CacheGetMiss(request, fails) ==
    [result |-> None, hit_count |-> hit_count, miss_count |-> miss_count + 1]

\* cache.get_teaching_response(request): the entry or None, and the counters after
CacheGet(request, fails) ==
    LET cache_key == GenerateCacheKey(request)
    IN IF is_production
       THEN LET cached_data == Get(redis_strings, cache_key)
                hit == ~fails /\ Truthy(cached_data)
                decoded == IF hit THEN Decode(cached_data[1])
                           ELSE [ok |-> FALSE, value |-> EmptyDict]
                exception == fails \/ (hit /\ ~decoded.ok)
            IN [result |-> IF hit /\ decoded.ok THEN Some(decoded.value) ELSE None,
                hit_count |-> IF hit THEN hit_count + 1 ELSE hit_count,
                miss_count |-> IF exception \/ ~hit THEN miss_count + 1
                               ELSE miss_count]
       ELSE IF cache_key \in DOMAIN cache
            THEN [result |-> Some(cache[cache_key]),
                  hit_count |-> hit_count + 1, miss_count |-> miss_count]
            ELSE [result |-> None,
                  hit_count |-> hit_count, miss_count |-> miss_count + 1]

\* a store that keeps the entry a key already has
CacheSetFirstWins(request, response, ttl_seconds, fails) ==
    LET cache_key == GenerateCacheKey(request)
    IN IF cache_key \in DOMAIN CacheStore
       THEN [cache |-> cache, redis_strings |-> redis_strings]
       ELSE IF is_production
       THEN [cache |-> cache,
             redis_strings |-> IF fails THEN redis_strings
                               ELSE Setex(redis_strings, cache_key,
                                          OrDefaultTtl(ttl_seconds),
                                          JsonDumps(response))]
       ELSE [cache |-> Put(cache, cache_key, response),
             redis_strings |-> redis_strings]

\* cache.set_teaching_response(request, response, ttl_seconds): the stores after
CacheSet(request, response, ttl_seconds, fails) ==
    LET cache_key == GenerateCacheKey(request)
    IN IF is_production
       THEN [cache |-> cache,
             redis_strings |-> IF fails THEN redis_strings
                               ELSE Setex(redis_strings, cache_key,
                                          OrDefaultTtl(ttl_seconds),
                                          JsonDumps(response))]
       ELSE [cache |-> Put(cache, cache_key, response),
             redis_strings |-> redis_strings]

\* database.save_conversation: the document added to the conversations
Conversation(student_id, request, response) ==
    [student_id |-> student_id, question |-> request.question,
     answer |-> response.answer, model_used |-> response.model_used,
     tokens_used |-> response.tokens_used, cost |-> response.estimated_cost]

\* a usage record that does not say whose it is
UsageMetricsAnonymous(student_id, model_id, tokens_used, cost) ==
    [user_id |-> "", model |-> model_id, tokens_used |-> tokens_used,
     cost |-> cost, timestamp |-> now]

\* UsageMetrics(user_id, model, tokens_used, cost, timestamp), as
\* save_usage_metrics appends it
UsageMetrics(student_id, model_id, tokens_used, cost) ==
    [user_id |-> student_id, model |-> model_id, tokens_used |-> tokens_used,
     cost |-> cost, timestamp |-> now]

\* `if self.monitoring: await self.monitoring.track_llm_call(...)`: the
\* Container builds a monitoring service in production only
TrackLlmCall(model, tokens_used, cost, success, error) ==
    IF is_production
    THEN Append(llm_calls, [model |-> model, tokens_used |-> tokens_used,
                            cost |-> cost, success |-> success, error |-> error])
    ELSE llm_calls

\* ------------------------------------------------------------------------
\* The pure steps of ask_question
\* ------------------------------------------------------------------------
Whitespace == {" ", "\t", "\n"}

RECURSIVE LStrip(_)
LStrip(s) ==
    IF s = "" THEN ""
    ELSE IF Head(s) \in Whitespace THEN LStrip(Tail(s)) ELSE s

RECURSIVE RStrip(_)
RStrip(s) ==
    IF s = "" THEN ""
    ELSE IF SubSeq(s, Len(s), Len(s)) \in Whitespace
         THEN RStrip(SubSeq(s, 1, Len(s) - 1)) ELSE s

\* str.strip()
Strip(s) == RStrip(LStrip(s))

max_length == 2000

\* a truncation that appends no marker
PostProcessResponseNoMarker(raw_response) ==
    LET processed == Strip(raw_response)
    IN IF Len(processed) > max_length
       THEN SubSeq(processed, 1, max_length)
       ELSE processed

\* _post_process_response
PostProcessResponse(raw_response) ==
    LET processed == Strip(raw_response)
    IN IF Len(processed) > max_length
       THEN SubSeq(processed, 1, max_length) \o "..."
       ELSE processed

Min(a, b) == IF a < b THEN a ELSE b

Max(a, b) == IF a > b THEN a ELSE b

\* a confidence whose thresholds belong to the adjusted ranges
CalculateConfidenceInclusive(llm_response) ==
    LET response_length == Len(llm_response.content)
        confidence == IF response_length <= 50 THEN 7 - 2
                      ELSE IF response_length >= 200 THEN 7 + 1
                      ELSE 7
    IN Max(0, Min(10, confidence))

\* _calculate_confidence, in tenths: 0.7, less 0.2 for a content under 50
\* characters, plus 0.1 for one over 200, then clamped to 0.0 .. 1.0
CalculateConfidence(llm_response) ==
    LET response_length == Len(llm_response.content)
        confidence == IF response_length < 50 THEN 7 - 2
                      ELSE IF response_length > 200 THEN 7 + 1
                      ELSE 7
    IN Max(0, Min(10, confidence))

\* time.time() - start_time, in clock units, when a response is built
Elapsed == {0, 1}

\* _generate_follow_up_suggestions: by subject, then the generic one, top 3
GenerateFollowUpSuggestions(request) ==
    LET subject == request.subject
        suggestions ==
            (IF subject = "math"
             THEN <<"Can you show me another example?",
                    "How would this apply to a real-world problem?">>
             ELSE IF subject \in {"science", "physics", "chemistry", "biology"}
             THEN <<"Can you explain the underlying principle?",
                    "What are some real-world applications?">>
             ELSE IF subject \in {"history", "literature"}
             THEN <<"What was the historical context?",
                    "How does this relate to other events?">>
             ELSE <<>>) \o <<"Can you explain this in simpler terms?">>
    IN SubSeq(suggestions, 1, Min(3, Len(suggestions)))

\* _suggest_learning_resources
SuggestLearningResources(request) ==
    LET subject == request.subject
    IN IF subject = "math"
       THEN <<"Khan Academy - Math", "Brilliant.org - Interactive Math">>
       ELSE IF subject \in {"science", "physics"}
       THEN <<"PhET Interactive Simulations", "Khan Academy - Physics">>
       ELSE <<>>

\* a hit that reports no tokens and no cost, as nothing was generated
CachedResponseNoTokens(cached, elapsed) ==
    [answer |-> cached.answer, model_used |-> cached.model_used,
     tokens_used |-> 0, estimated_cost |-> 0,
     confidence |-> cached.confidence, source |-> "cache",
     processing_time_ms |-> elapsed,
     follow_up_suggestions |-> cached.follow_up_suggestions,
     learning_resources |-> cached.learning_resources]

NoHelperCall == [op |-> "none", llm_response |-> None, result |-> 0]

\* one call of _calculate_confidence
CalculateConfidenceCall(llm_response) ==
    /\ computed' = [op |-> "calculate_confidence",
                    llm_response |-> Some(llm_response),
                    result |-> CalculateConfidence(llm_response)]
    /\ UNCHANGED <<limiter_vars, cache_vars, router_vars, service_vars>>

\* ------------------------------------------------------------------------
\* The conversation history: TeachingRequest.validate_history and
\* _build_teaching_prompt
\* ------------------------------------------------------------------------
\* a validator that keeps the oldest messages
ValidateHistoryOldest(v) ==
    IF v # <<>> /\ Len(v) > 20 THEN SubSeq(v, 1, 20) ELSE v

\* `if v and len(v) > 20: return v[-20:]`; None and the empty list are both
\* the empty sequence here, and both are returned as they are
ValidateHistory(v) ==
    IF v # <<>> /\ Len(v) > 20 THEN SubSeq(v, Len(v) - 19, Len(v)) ELSE v

\* TeachingRequest(**fields): the validator runs on conversation_history
TeachingRequest(fields) ==
    [fields EXCEPT !.conversation_history = ValidateHistory(@)]

LowerCase == "abcdefghijklmnopqrstuvwxyz"
UpperCase == "ABCDEFGHIJKLMNOPQRSTUVWXYZ"

IsLetter(c) ==
    \E i \in 1..26 : SubSeq(LowerCase, i, i) = c \/ SubSeq(UpperCase, i, i) = c

UpperChar(c) ==
    IF \E i \in 1..26 : SubSeq(LowerCase, i, i) = c
    THEN LET i == CHOOSE j \in 1..26 : SubSeq(LowerCase, j, j) = c
         IN SubSeq(UpperCase, i, i)
    ELSE c

LowerChar(c) ==
    IF \E i \in 1..26 : SubSeq(UpperCase, i, i) = c
    THEN LET i == CHOOSE j \in 1..26 : SubSeq(UpperCase, j, j) = c
         IN SubSeq(LowerCase, i, i)
    ELSE c

RECURSIVE LowerAll(_)
LowerAll(s) ==
    IF s = "" THEN "" ELSE LowerChar(SubSeq(s, 1, 1)) \o LowerAll(Tail(s))

\* str.capitalize()
Capitalize(s) ==
    IF s = "" THEN "" ELSE UpperChar(SubSeq(s, 1, 1)) \o LowerAll(Tail(s))

\* str.title(): the first letter of every run of letters in upper case, the
\* others in lower case
RECURSIVE TitleFrom(_, _)
TitleFrom(s, in_word) ==
    IF s = "" THEN ""
    ELSE LET c == SubSeq(s, 1, 1)
         IN IF IsLetter(c)
            THEN (IF in_word THEN LowerChar(c) ELSE UpperChar(c))
                 \o TitleFrom(Tail(s), TRUE)
            ELSE c \o TitleFrom(Tail(s), FALSE)

Title(s) == TitleFrom(s, FALSE)

\* value.replace('_', ' ')
RECURSIVE ReplaceUnderscores(_)
ReplaceUnderscores(s) ==
    IF s = "" THEN ""
    ELSE (IF SubSeq(s, 1, 1) = "_" THEN " " ELSE SubSeq(s, 1, 1))
         \o ReplaceUnderscores(Tail(s))

\* sep.join(parts)
RECURSIVE Join(_, _)
Join(parts, sep) ==
    IF parts = <<>> THEN ""
    ELSE IF Len(parts) = 1 THEN parts[1]
    ELSE parts[1] \o sep \o Join(Tail(parts), sep)

\* the line of the prompt for one message of the history
HistoryLine(msg) == Capitalize(msg.role) \o ": " \o msg.content

\* the lines for the items of additional_context
RECURSIVE ContextLines(_)
ContextLines(context) ==
    IF DOMAIN context = {} THEN <<>>
    ELSE LET key == CHOOSE k \in DOMAIN context : TRUE
         IN <<"- " \o key \o ": " \o context[key]>>
            \o ContextLines([k \in (DOMAIN context) \ {key} |-> context[k]])

\* _build_teaching_prompt; model_config is not read
BuildTeachingPrompt(request, model_config) ==
    LET history == request.conversation_history
        last5 == IF Len(history) > 5
                 THEN SubSeq(history, Len(history) - 4, Len(history))
                 ELSE history
        history_parts ==
            IF history # <<>>
            THEN <<"Previous conversation:">>
                 \o [i \in 1..Len(last5) |-> HistoryLine(last5[i])]
                 \o <<"">>
            ELSE <<>>
        context_parts ==
            IF BoolDict(request.additional_context)
            THEN <<"Additional Context:">>
                 \o ContextLines(request.additional_context[1]) \o <<"">>
            ELSE <<>>
        prompt_parts ==
            history_parts
            \o <<"Subject: " \o Title(ReplaceUnderscores(request.subject)),
                 "Grade Level: " \o Title(ReplaceUnderscores(request.grade_level)),
                 "">>
            \o context_parts
            \o <<"Teaching Guidelines:",
                 "- Use Socratic questioning to guide learning",
                 "- Encourage critical thinking and problem-solving",
                 "- Provide clear explanations with examples",
                 "- Adapt language to the student's grade level",
                 "- Be encouraging and supportive",
                 "",
                 "Student Question: " \o request.question,
                 "",
                 "Please provide a helpful, educational response:">>
    IN Join(prompt_parts, "\n")

\* the history of the unit test: message i of the conversation
Message(i) ==
    [role |-> IF i % 2 = 0 THEN "user" ELSE "assistant",
     content |-> "Message " \o ToString(i)]

Histories == {[i \in 1..n |-> Message(i - 1)] : n \in 0..MaxHistory}

\* the arguments TeachingRequest is built with
RequestFields ==
    {[student_id |-> "s1", question |-> "What is 2+2?",
      subject |-> "computer_science", grade_level |-> "high_school",
      conversation_history |-> h, model_preference |-> None,
      additional_context |-> c] :
        h \in Histories, c \in {None, Some([k \in {"topic"} |-> "algebra"])}}

\* one construction of a TeachingRequest
TeachingRequestCall(fields) ==
    /\ computed' = [op |-> "teaching_request", llm_response |-> None,
                    result |-> TeachingRequest(fields), fields |-> fields]
    /\ UNCHANGED <<limiter_vars, cache_vars, router_vars, service_vars>>

\* one call of _build_teaching_prompt, for a request that was constructed
BuildTeachingPromptCall(request, model_config) ==
    /\ computed' = [op |-> "build_teaching_prompt", llm_response |-> None,
                    result |-> BuildTeachingPrompt(request, model_config),
                    request |-> request]
    /\ UNCHANGED <<limiter_vars, cache_vars, router_vars, service_vars>>

\* one call of _post_process_response
PostProcessResponseCall(raw_response) ==
    /\ computed' = [op |-> "post_process_response",
                    llm_response |-> Some([content |-> raw_response,
                                           tokens_used |-> 10, cost |-> 1]),
                    result |-> PostProcessResponse(raw_response)]
    /\ UNCHANGED <<limiter_vars, cache_vars, router_vars, service_vars>>

\* the TeachingResponse ask_question returns on a cache hit
CachedResponse(cached, elapsed) ==
    [answer |-> cached.answer, model_used |-> cached.model_used,
     tokens_used |-> cached.tokens_used,
     estimated_cost |-> cached.estimated_cost,
     confidence |-> cached.confidence, source |-> "cache",
     processing_time_ms |-> elapsed,
     follow_up_suggestions |-> cached.follow_up_suggestions,
     learning_resources |-> cached.learning_resources]

\* the TeachingResponse ask_question builds from what the provider returned
LlmTeachingResponse(request, llm_response, model_id, elapsed) ==
    [answer |-> PostProcessResponse(llm_response.content),
     model_used |-> model_id,
     tokens_used |-> llm_response.tokens_used,
     estimated_cost |-> llm_response.cost,
     confidence |-> CalculateConfidence(llm_response), source |-> "llm",
     processing_time_ms |-> elapsed,
     follow_up_suggestions |-> GenerateFollowUpSuggestions(request),
     learning_resources |-> SuggestLearningResources(request)]

\* ------------------------------------------------------------------------
\* POST /api/v1/teach: the route around ask_question and the handlers of the
\* application
\* ------------------------------------------------------------------------
\* the route: a response is returned as it is, a ValueError becomes
\* HTTPException(400), any other exception HTTPException(500)
TeachRoute(raised, response) ==
    IF raised = None THEN [raised |-> None, returned |-> response]
    ELSE IF raised[1].class = "ValueError"
    THEN [raised |-> Some([class |-> "HTTPException",
                           message |-> raised[1].message,
                           retry_after |-> 0, status_code |-> 400]),
          returned |-> None]
    ELSE [raised |-> Some([class |-> "HTTPException",
                           message |-> "Failed to generate response: "
                                       \o raised[1].message,
                           retry_after |-> 0, status_code |-> 500]),
          returned |-> None]

\* the handler the application runs for an exception that left the route
ExceptionHandler(exc) ==
    CASE exc.class = "RateLimitExceeded" ->
             [status_code |-> 429,
              content |-> [error |-> "rate_limit_exceeded",
                           message |-> exc.message,
                           retry_after |-> exc.retry_after]]
      [] exc.class = "HTTPException" ->
             [status_code |-> exc.status_code,
              content |-> [detail |-> exc.message]]
      [] OTHER ->
             [status_code |-> 500,
              content |-> [error |-> "internal_error",
                           message |-> "An internal error occurred"]]

\* what the client of POST /teach receives
TeachEndpoint(raised, response) ==
    LET out == TeachRoute(raised, response)
    IN IF out.raised = None
       THEN [status_code |-> 200, content |-> out.returned[1]]
       ELSE ExceptionHandler(out.raised[1])

\* ------------------------------------------------------------------------
\* ask_question, one action per await: the awaited call and the code that
\* follows it up to the next await
\* ------------------------------------------------------------------------
\* what the services hold before a step
Before ==
    [store |-> CacheStore, hit_count |-> hit_count, miss_count |-> miss_count,
     conversations |-> conversations, usage_metrics |-> usage_metrics,
     llm_calls |-> llm_calls, generated |-> generated]

NoAsk == [id |-> 0, request |-> None, steps |-> <<>>, model_id |-> None,
          lookup |-> None,
          llm_response |-> None, teaching_response |-> None,
          provider_raised |-> None, raised |-> None, response |-> None,
          http |-> None, before |-> [store |-> EmptyDict, hit_count |-> 0,
                                     miss_count |-> 0, conversations |-> <<>>,
                                     usage_metrics |-> <<>>, llm_calls |-> <<>>,
                                     generated |-> 0]]

\* the step call `id` just ran: `raised` is the exception that left
\* ask_question with it, `response` what ask_question returned with it
Step(id, ask, provider_raised, raised, response) ==
    [id |-> id, request |-> Some(ask.request), steps |-> ask.steps,
     model_id |-> ask.model_id, lookup |-> ask.lookup,
     llm_response |-> ask.llm_response,
     teaching_response |-> ask.teaching_response,
     provider_raised |-> provider_raised, raised |-> raised,
     response |-> response,
     http |-> IF raised = None /\ response = None THEN None
              ELSE Some(TeachEndpoint(raised, response)),
     before |-> Before]

\* the call goes on with its next await, or has left ask_question
Continue(id, ask, raised, response) ==
    IF raised = None /\ response = None THEN Put(asking, id, ask)
    ELSE Del(asking, id)

\* how a call stands after a step: rejected by the limiter, failed with
\* another exception, returned from the cache or from the provider, or running
Outcome(raised, response) ==
    IF raised # None
    THEN IF raised[1].class = "RateLimitExceeded" THEN "rejected" ELSE "failed"
    ELSE IF response # None THEN response[1].source
    ELSE "running"

\* lines 79-86: start_time, then the admission check
AskQuestionCheckLimit(request) ==
    /\ nasks < MaxAsks
    /\ Cardinality(DOMAIN asking) < MaxAsking
    /\ LET id == nasks + 1
           out == CheckLimit(request.student_id)
           ask == [request |-> request, model_id |-> None, lookup |-> None,
                   llm_response |-> None, teaching_response |-> None,
                   steps |-> <<"check_limit">>]
           raised == IF out.allowed THEN None
                     ELSE Some(RateLimitExceeded(limit, window_seconds))
       IN /\ requests' = out.requests
          /\ redis' = out.redis
          /\ nasks' = id
          /\ asking' = IF raised = None THEN Put(asking, id, ask) ELSE asking
          /\ done' = Step(id, ask, None, raised, None)
          /\ outcomes' = Put(outcomes, id, Outcome(raised, None))
    /\ UNCHANGED <<conversations, usage_metrics, llm_calls, generated>>
    /\ UNCHANGED <<is_production, now, limit, window_seconds, inflight,
                   admitted, calls, fresh, ncalls, sequential, others, last>>
    /\ UNCHANGED cache_vars
    /\ UNCHANGED <<router_vars, helper_vars>>

\* lines 89-121: the cache lookup; a hit returns `elapsed` after the start, a miss selects the model,
\* reads its configuration (a ValueError for a model that is not registered),
\* builds the prompt and gets the provider
AskQuestionCacheGet(id, fails, elapsed) ==
    /\ id \in DOMAIN asking
    /\ Len(asking[id].steps) = 1
    /\ fails => is_production
    /\ LET request == asking[id].request
           out == CacheGet(request, fails)
           model_id == SelectModel(request, available_models, default_model)
           ask == [asking[id] EXCEPT
                     !.steps = Append(@, "cache_get"),
                     !.lookup = Some([stored |-> Fields(request) \in DOMAIN written,
                                      failed |-> fails]),
                     !.model_id = IF out.result = None THEN Some(model_id) ELSE @]
           response == IF out.result = None THEN None
                       ELSE Some(CachedResponse(out.result[1], elapsed))
           raised == IF out.result = None /\ model_id \notin available_models
                     THEN Some(Exc("ValueError", "Model '" \o model_id
                                                 \o "' not found in configuration"))
                     ELSE None
       IN /\ hit_count' = out.hit_count
          /\ miss_count' = out.miss_count
          /\ asking' = Continue(id, ask, raised, response)
          /\ done' = Step(id, ask, None, raised, response)
          /\ outcomes' = Put(outcomes, id, Outcome(raised, response))
    /\ UNCHANGED <<nasks, conversations, usage_metrics, llm_calls, generated>>
    /\ UNCHANGED <<cache, redis_strings, written, lookups, returned, ncache, lastc>>
    /\ UNCHANGED limiter_vars
    /\ UNCHANGED <<router_vars, helper_vars>>

\* lines 123-169: provider.generate returns `outcome.llm_response` or raises
\* `outcome.raised`; the call is tracked, a raised exception is raised again,
\* an answer is post-processed and becomes the TeachingResponse, built
\* `elapsed` after the start
AskQuestionGenerate(id, outcome, elapsed) ==
    /\ id \in DOMAIN asking
    /\ Len(asking[id].steps) = 2
    /\ LET model_id == asking[id].model_id[1]
           answered == outcome.raised = None
           llm_response == outcome.llm_response
           ask == [asking[id] EXCEPT
                     !.steps = Append(@, "generate"),
                     !.llm_response = IF answered THEN Some(llm_response) ELSE @,
                     !.teaching_response =
                         IF answered
                         THEN Some(LlmTeachingResponse(asking[id].request,
                                                       llm_response, model_id,
                                                       elapsed))
                         ELSE @]
       IN /\ generated' = generated + 1
          /\ llm_calls' = IF answered
                          THEN TrackLlmCall(model_id, llm_response.tokens_used,
                                            llm_response.cost, TRUE, None)
                          ELSE TrackLlmCall(model_id, 0, 0, FALSE,
                                            Some(outcome.raised[1].message))
          /\ asking' = Continue(id, [ask EXCEPT !.lookup = None],
                                outcome.raised, None)
          /\ done' = Step(id, ask, outcome.raised, outcome.raised, None)
          /\ outcomes' = Put(outcomes, id, Outcome(outcome.raised, None))
    /\ UNCHANGED <<nasks, conversations, usage_metrics>>
    /\ UNCHANGED cache_vars
    /\ UNCHANGED limiter_vars
    /\ UNCHANGED <<router_vars, helper_vars>>

\* lines 171-174: the response is stored in the cache for 3600 seconds
AskQuestionCacheSet(id, fails) ==
    /\ id \in DOMAIN asking
    /\ Len(asking[id].steps) = 3
    /\ fails => is_production
    /\ LET ask == [asking[id] EXCEPT !.steps = Append(@, "cache_set")]
           out == CacheSet(ask.request, ask.teaching_response[1], Some(3600), fails)
       IN /\ cache' = out.cache
          /\ redis_strings' = out.redis_strings
          /\ written' = IF fails THEN written
                        ELSE Put(written, Fields(ask.request),
                                 [response |-> ask.teaching_response[1],
                                  at |-> now, ttl_seconds |-> Some(3600),
                                  request |-> ask.request])
          /\ asking' = Continue(id, ask, None, None)
          /\ done' = Step(id, ask, None, None, None)
          /\ outcomes' = Put(outcomes, id, Outcome(None, None))
    /\ UNCHANGED <<nasks, conversations, usage_metrics, llm_calls, generated>>
    /\ UNCHANGED <<hit_count, miss_count, lookups, returned, ncache, lastc>>
    /\ UNCHANGED limiter_vars
    /\ UNCHANGED <<router_vars, helper_vars>>

\* lines 176-179: the conversation is saved; a Firestore write that raises
\* leaves ask_question
AskQuestionSaveConversation(id, fails) ==
    /\ id \in DOMAIN asking
    /\ Len(asking[id].steps) = 4
    /\ fails => is_production
    /\ LET ask == [asking[id] EXCEPT !.steps = Append(@, "save_conversation")]
           raised == IF fails THEN Some(DatabaseError) ELSE None
       IN /\ conversations' =
                 IF fails THEN conversations
                 ELSE Append(conversations,
                             Conversation(ask.request.student_id, ask.request,
                                          ask.teaching_response[1]))
          /\ asking' = Continue(id, ask, raised, None)
          /\ done' = Step(id, ask, None, raised, None)
          /\ outcomes' = Put(outcomes, id, Outcome(raised, None))
    /\ UNCHANGED <<nasks, usage_metrics, llm_calls, generated>>
    /\ UNCHANGED cache_vars
    /\ UNCHANGED limiter_vars
    /\ UNCHANGED <<router_vars, helper_vars>>

\* lines 181-189 and _track_usage: the usage record is saved and the response
\* returned; a Firestore write that raises leaves ask_question
AskQuestionTrackUsage(id, fails) ==
    /\ id \in DOMAIN asking
    /\ Len(asking[id].steps) = 5
    /\ fails => is_production
    /\ LET ask == [asking[id] EXCEPT !.steps = Append(@, "track_usage")]
           llm_response == ask.llm_response[1]
           raised == IF fails THEN Some(DatabaseError) ELSE None
           response == IF fails THEN None ELSE ask.teaching_response
       IN /\ usage_metrics' =
                 IF fails THEN usage_metrics
                 ELSE Append(usage_metrics,
                             UsageMetrics(ask.request.student_id, ask.model_id[1],
                                          llm_response.tokens_used,
                                          llm_response.cost))
          /\ asking' = Continue(id, ask, raised, response)
          /\ done' = Step(id, ask, None, raised, response)
          /\ outcomes' = Put(outcomes, id, Outcome(raised, response))
    /\ UNCHANGED <<nasks, conversations, llm_calls, generated>>
    /\ UNCHANGED cache_vars
    /\ UNCHANGED limiter_vars
    /\ UNCHANGED <<router_vars, helper_vars>>

\* ------------------------------------------------------------------------
\* The clock
\* ------------------------------------------------------------------------
Tick ==
    /\ now < MaxTime
    /\ now' = now + 1
    /\ last' = NoCall
    /\ others' = [b \in Identifiers |-> <<>>]
    /\ sequential' = (sequential /\ NoneInflight)
    /\ lastc' = NoCacheCall
    /\ UNCHANGED <<is_production, limit, window_seconds, requests, redis,
                   inflight, admitted, calls, fresh, ncalls>>
    /\ UNCHANGED <<cache, redis_strings, hit_count, miss_count, written,
                   lookups, returned, ncache>>
    /\ UNCHANGED rest_vars

\* ------------------------------------------------------------------------
\* Specification of the limiters
\* ------------------------------------------------------------------------
InitLimiter ==
    /\ is_production \in BOOLEAN
    /\ now = 0
    /\ limit \in 0..MaxLimit
    /\ window_seconds \in 1..MaxWindow
    /\ requests = EmptyDict
    /\ redis = EmptyDict
    /\ inflight = [i \in Identifiers |-> 0]
    /\ admitted = [i \in Identifiers |-> [t \in Times |-> 0]]
    /\ calls = [i \in Identifiers |-> 0]
    /\ fresh = [i \in Identifiers |-> FALSE]
    /\ ncalls = 0
    /\ sequential = TRUE
    /\ others = [b \in Identifiers |-> <<>>]
    /\ last = NoCall

InitCache ==
    /\ cache = EmptyDict
    /\ redis_strings = EmptyDict
    /\ hit_count = 0
    /\ miss_count = 0
    /\ written = EmptyDict
    /\ lookups = 0
    /\ returned = 0
    /\ ncache = 0
    /\ lastc = NoCacheCall

\* the registry of LLMConfiguration._get_default_config
InitRegistry ==
    /\ available_models = {"phi3-mini-educational"}
    /\ default_model = "phi3-mini-educational"
    /\ routed = NoRoute

InitAsking ==
    /\ asking = EmptyDict
    /\ nasks = 0
    /\ conversations = <<>>
    /\ usage_metrics = <<>>
    /\ llm_calls = <<>>
    /\ generated = 0
    /\ outcomes = EmptyDict
    /\ done = NoAsk

Init == InitLimiter /\ InitCache /\ InitRegistry /\ InitAsking
        /\ computed = NoHelperCall

NextLimiter ==
    \/ Tick
    \/ \E identifier \in Identifiers : InMemoryCheckLimit(identifier)
    \/ \E identifier \in Identifiers : InMemoryGetRemaining(identifier)
    \/ \E identifier \in Identifiers : InMemoryResetLimit(identifier)
    \/ \E identifier \in Identifiers, t \in 0..now : RedisCheckLimit(identifier, t)
    \/ \E identifier \in Identifiers, t \in 0..now : RedisGetRemainingZrem(identifier, t)
    \/ \E identifier \in Identifiers : RedisGetRemainingZcard(identifier)
    \/ \E identifier \in Identifiers : RedisResetLimit(identifier)

Next == NextLimiter

Spec == Init /\ [][Next]_vars

\* ------------------------------------------------------------------------
\* Specification of the caches
\* ------------------------------------------------------------------------
InitCacheService ==
    /\ Init
    /\ limit = MaxLimit
    /\ window_seconds = MaxWindow

NextCache ==
    \/ Tick
    \/ \E request \in Requests : InMemoryGetTeachingResponse(request)
    \/ \E request \in Requests, response \in Responses, ttl_seconds \in TtlArguments :
           InMemorySetTeachingResponse(request, response, ttl_seconds)
    \/ \E request \in Requests, fails \in BOOLEAN :
           RedisGetTeachingResponse(request, fails)
    \/ \E request \in Requests, response \in Responses,
          ttl_seconds \in TtlArguments, fails \in BOOLEAN :
           RedisSetTeachingResponse(request, response, ttl_seconds, fails)
    \/ \E request \in Requests, payload \in ForeignPayloads :
           ForeignSet(request, payload)
    \/ \E pattern \in Patterns : InMemoryInvalidateCache(pattern)
    \/ \E pattern \in Patterns, fails \in BOOLEAN :
           RedisInvalidateCache(pattern, fails)

SpecCache == InitCacheService /\ [][NextCache]_vars

\* ------------------------------------------------------------------------
\* Specification of the model router: any registry, any request
\* ------------------------------------------------------------------------
InitRouter ==
    /\ InitLimiter
    /\ limit = MaxLimit
    /\ window_seconds = MaxWindow
    /\ InitCache
    /\ available_models \in SUBSET ModelIds
    /\ default_model \in ModelIds
    /\ routed = NoRoute
    /\ InitAsking
    /\ computed = NoHelperCall

NextRouter == \E request \in RoutingRequests : SelectModelCall(request)

SpecRouter == InitRouter /\ [][NextRouter]_vars

\* ------------------------------------------------------------------------
\* The teaching service: requests arrive with the default registry.
\* ask_question passes limit=10 and window_seconds=60 to check_limit; the
\* model keeps the comparison and scales the numbers to one call in
\* MaxWindow clock units, so that a rejection happens within MaxAsks calls.
\* The requests are handled within one reading of the limiter's clock
\* ------------------------------------------------------------------------
InitTeaching ==
    /\ Init
    /\ limit = 1
    /\ window_seconds = MaxWindow

\* what provider.generate does: it returns a response or raises
GenerateOutcomes ==
    {[raised |-> None, llm_response |-> r] : r \in LLMResponses}
    \cup {[raised |-> Some(e), llm_response |-> None] : e \in ProviderErrors}

NextTeaching ==
    \/ \E request \in AskRequests : AskQuestionCheckLimit(request)
    \/ \E id \in 1..MaxAsks, fails \in BOOLEAN, elapsed \in Elapsed :
           AskQuestionCacheGet(id, fails, elapsed)
    \/ \E id \in 1..MaxAsks, outcome \in GenerateOutcomes, elapsed \in Elapsed :
           AskQuestionGenerate(id, outcome, elapsed)
    \/ \E id \in 1..MaxAsks, fails \in BOOLEAN : AskQuestionCacheSet(id, fails)
    \/ \E id \in 1..MaxAsks, fails \in BOOLEAN : AskQuestionSaveConversation(id, fails)
    \/ \E id \in 1..MaxAsks, fails \in BOOLEAN : AskQuestionTrackUsage(id, fails)

SpecTeaching == InitTeaching /\ [][NextTeaching]_vars

\* ------------------------------------------------------------------------
\* The pure helpers of TeachingService, called with provider responses whose
\* content has every length up to MaxContentLength
\* ------------------------------------------------------------------------
ScoredResponses ==
    {[content |-> Text(n), tokens_used |-> 10, cost |-> 1] :
        n \in 0..MaxContentLength}

InitHelpers ==
    /\ Init
    /\ limit = MaxLimit
    /\ window_seconds = MaxWindow

\* contents the provider returns: short ones and ones about max_length long,
\* some ending in an ellipsis of their own, with and without white space
\* around them
Paddings == {"", " ", "\n\t"}

ContentLengths ==
    (0..MaxSlack) \cup ((max_length - MaxSlack)..(max_length + MaxSlack))

RawResponses ==
    {before \o Text(n) \o ending \o after :
        before \in Paddings, after \in Paddings,
        n \in ContentLengths \cup {max_length - 3}, ending \in {"", "..."}}

NextHelpers ==
    \/ \E llm_response \in ScoredResponses : CalculateConfidenceCall(llm_response)
    \/ \E raw_response \in RawResponses : PostProcessResponseCall(raw_response)
    \/ \E fields \in RequestFields : TeachingRequestCall(fields)
    \/ \E fields \in RequestFields :
           BuildTeachingPromptCall(TeachingRequest(fields), default_model)

SpecHelpers == InitHelpers /\ [][NextHelpers]_vars

\* ------------------------------------------------------------------------
\* Properties of the limiters
\* ------------------------------------------------------------------------
NothingRecorded(identifier) ==
    /\ identifier \in DOMAIN requests => requests[identifier] = <<>>
    /\ RateLimitKey(identifier) \in DOMAIN redis
           => DOMAIN redis[RateLimitKey(identifier)].zset = {}

\* C1: for every identifier, the number of allowed check_limit calls whose
\* timestamps lie inside one trailing window (t - window_seconds, t] never
\* exceeds limit, whatever the interleaving of the calls.
C1_AdmittedNeverExceedsLimit ==
    \A identifier \in Identifiers : \A t \in Times :
        AdmittedIn(identifier, t, window_seconds) <= limit

\* the same bound for InMemoryRateLimiter alone
InMemoryAdmittedNeverExceedsLimit ==
    ~is_production => C1_AdmittedNeverExceedsLimit

\* C2: once limit calls of an identifier have been allowed inside the window
\* of a further check_limit call, that call raises RateLimitExceeded with
\* retry_after equal to window_seconds (stated for calls made one after the
\* other, none overlapping another).
C2_ExcessCallRejected ==
    (sequential /\ last.op = "check_limit" /\ last.admitted_before >= limit)
        => (~last.allowed /\ last.retry_after = window_seconds)

\* the same for InMemoryRateLimiter alone
InMemoryExcessCallRejected ==
    ~is_production => C2_ExcessCallRejected

\* C3: a check_limit call made when every admitted timestamp of the identifier
\* is older than now - window_seconds is allowed, however many rejected calls
\* were made in between (stated for limit >= 1 and calls made one after the
\* other).
C3_AllowedOnceWindowSlid ==
    (/\ sequential
     /\ last.op = "check_limit"
     /\ limit >= 1
     /\ \A t \in Times : admitted[last.identifier][t] > 0
                             => (t <= last.now - window_seconds \/ (last.allowed /\ t = last.now)))
        => last.allowed

\* the same for InMemoryRateLimiter alone
InMemoryAllowedOnceWindowSlid ==
    ~is_production => C3_AllowedOnceWindowSlid

\* C4 as stated: after reset_limit(identifier) nothing is recorded for the
\* identifier and the next check_limit for it is allowed.
C4_NextCallAfterResetAllowed ==
    /\ \A identifier \in Identifiers : fresh[identifier] => NothingRecorded(identifier)
    /\ (last.op = "check_limit" /\ last.after_reset) => last.allowed

\* C4 amended: after reset_limit(identifier) nothing is recorded for the
\* identifier, and the next check_limit for it is allowed whenever limit >= 1.
C4_NextCallAfterResetAllowedPositiveLimit ==
    /\ \A identifier \in Identifiers : fresh[identifier] => NothingRecorded(identifier)
    /\ (last.op = "check_limit" /\ last.after_reset /\ limit >= 1) => last.allowed

\* an identifier that had used up its limit is reset and then allowed
C4_Witness ==
    /\ last.op = "check_limit" /\ last.after_reset /\ last.allowed
    /\ limit >= 1 /\ last.now = 0
    /\ last.prior_calls >= limit

\* C5: a limiter step made for one identifier changes neither what is
\* recorded for another identifier nor the outcome of that identifier's next
\* check_limit, and an identifier is only ever rejected after at least limit
\* check_limit calls of its own.
C5_PerIdentifier ==
    /\ \A b \in Identifiers :
           others[b] # <<>> => others[b] = <<Recorded(b), NextCheckAllowed(b)>>
    /\ (last.op = "check_limit" /\ ~last.allowed) => last.prior_calls >= limit

\* one identifier has used up its limit and the other is allowed
C5_Witness ==
    /\ last.op = "check_limit" /\ last.identifier = "s2" /\ last.allowed
    /\ last.now = 0 /\ limit >= 1
    /\ calls["s1"] > limit

\* C6: get_remaining returns limit - k after k <= limit allowed calls inside
\* the window, and limit for an identifier never seen (stated for calls made
\* one after the other).
C6_RemainingIsLimitMinusAdmitted ==
    (sequential /\ last.op = "get_remaining" /\ last.admitted_before <= limit)
        => last.remaining = limit - last.admitted_before

\* the same for InMemoryRateLimiter alone
InMemoryRemainingIsLimitMinusAdmitted ==
    ~is_production => C6_RemainingIsLimitMinusAdmitted

\* ------------------------------------------------------------------------
\* Properties of the caches
\* ------------------------------------------------------------------------
\* two requests have the same key exactly when they agree on subject,
\* grade_level, model_preference or "default", and question
KeysInjective ==
    \A r1 \in AllRequests : \A r2 \in AllRequests :
        (GenerateCacheKey(r1) = GenerateCacheKey(r2)) <=> (Fields(r1) = Fields(r2))

\* the entry stored for the fields has not outlived its time to live
WithinTtl(entry) == now < entry.at + OrDefaultTtl(entry.ttl_seconds)

\* C7: requests get the same key exactly when they agree on the four fields;
\* a get_teaching_response that returns an entry returns the response last
\* stored for the same four fields, never one stored for other fields, and it
\* does return that response when the store of it went through and its time
\* to live has not run out.
C7_CacheRoundTrip ==
    /\ KeysInjective
    /\ lastc.op = "get" =>
        /\ lastc.result # None =>
              /\ lastc.fields \in DOMAIN written
              /\ lastc.result = Some(written[lastc.fields].response)
        /\ (/\ ~lastc.failed
            /\ lastc.fields \in DOMAIN written
            /\ WithinTtl(written[lastc.fields]))
              => lastc.result = Some(written[lastc.fields].response)

\* RedisCacheService: the entry stored for a request came back for it
C7_Witness ==
    /\ is_production
    /\ lastc.op = "get" /\ lastc.result # None
    /\ lastc.fields = Fields(BaseRequest)
    /\ hit_count = 1 /\ miss_count = 0

\* C8: a get_teaching_response made more than t seconds after the
\* set_teaching_response with ttl_seconds = t (t >= 1) that stored the entry
\* returns None, in both implementations.
C8_NoEntryAfterTtl ==
    (/\ lastc.op = "get"
     /\ lastc.result # None
     /\ lastc.fields \in DOMAIN written
     /\ written[lastc.fields].ttl_seconds # None
     /\ written[lastc.fields].ttl_seconds # Some(0))
        => ~(now - written[lastc.fields].at > written[lastc.fields].ttl_seconds[1])

\* the same for RedisCacheService alone
RedisNoEntryAfterTtl ==
    is_production => C8_NoEntryAfterTtl

\* C9: hit_count + miss_count is the number of lookups made, hit_count is the
\* number of lookups that returned an entry, and a store changes neither
\* counter, in both implementations.
C9_HitMissAccounting ==
    /\ hit_count + miss_count = lookups
    /\ hit_count = returned
    /\ lastc.op = "set" => (hit_count = lastc.hit_before /\ miss_count = lastc.miss_before)

\* the same for InMemoryCacheService alone
InMemoryHitMissAccounting ==
    ~is_production => C9_HitMissAccounting

\* C10: no cache call raises; a get_teaching_response during which the store
\* fails returns None and adds one to miss_count only; a
\* set_teaching_response during which the store fails leaves the stored
\* entries and the counters as they were.
C10_FailOpen ==
    /\ ~lastc.raised
    /\ (lastc.op = "get" /\ lastc.failed) =>
           /\ lastc.result = None
           /\ miss_count = lastc.miss_before + 1
           /\ hit_count = lastc.hit_before
    /\ (lastc.op = "set" /\ lastc.failed) =>
           /\ redis_strings = lastc.store_before
           /\ hit_count = lastc.hit_before
           /\ miss_count = lastc.miss_before

\* the store failed during a set_teaching_response for fields that had an
\* entry, which is still there
C10_Witness ==
    /\ lastc.op = "set" /\ lastc.failed
    /\ lastc.fields \in DOMAIN written
    /\ Get(redis_strings, GenerateCacheKey(CHOOSE r \in AllRequests : Fields(r) = lastc.fields)) # None

\* C11: invalidate_cache(pattern) deletes exactly the entries whose key
\* matches the glob pattern, leaves every other entry as it was and returns
\* the number of entries it deleted, in both implementations.
C11_InvalidateDeletesGlobMatches ==
    (lastc.op = "invalidate" /\ ~lastc.failed) =>
        /\ LiveKeys(CacheStore) =
               {k \in LiveKeys(lastc.store_before) : ~GlobMatch(lastc.pattern, k)}
        /\ \A k \in LiveKeys(CacheStore) : CacheStore[k] = lastc.store_before[k]
        /\ lastc.deleted =
               Cardinality({k \in LiveKeys(lastc.store_before) :
                               GlobMatch(lastc.pattern, k)})

\* the same for RedisCacheService alone
RedisInvalidateDeletesGlobMatches ==
    is_production => C11_InvalidateDeletesGlobMatches

\* ------------------------------------------------------------------------
\* Properties of the model router
\* ------------------------------------------------------------------------
\* the request of the last call names a model the registry lists
PreferenceListed ==
    /\ routed.request.model_preference # None
    /\ routed.request.model_preference[1] \in routed.available_before

\* the heuristics of the last call ask for the advanced model and it is listed;
\* an additional_context counts as present when it holds an entry
AdvancedWanted ==
    /\ \/ Len(routed.request.question) > 500
       \/ (routed.request.additional_context # None
           /\ DOMAIN routed.request.additional_context[1] # {})
       \/ routed.request.grade_level = "college"
    /\ routed.request.subject \in {"physics", "chemistry", "computer_science"}
    /\ "llama3-8b-advanced" \in routed.available_before

\* C12: _select_model returns the preference whenever the registry lists it;
\* otherwise "llama3-8b-advanced" when the request is complex, its subject
\* advanced and that id listed; otherwise default_model; the result is fixed
\* by the request and the registry, and the call changes neither the registry
\* nor the default.
C12_SelectModelFirstMatchWins ==
    routed.op = "select" =>
        /\ PreferenceListed => routed.model_id = routed.request.model_preference[1]
        /\ (~PreferenceListed /\ AdvancedWanted)
               => routed.model_id = "llama3-8b-advanced"
        /\ (~PreferenceListed /\ ~AdvancedWanted)
               => routed.model_id = routed.default_before
        /\ routed.model_id = SelectModel(routed.request, routed.available_before,
                                         routed.default_before)
        /\ available_models = routed.available_before
        /\ default_model = routed.default_before

\* a listed preference wins over heuristics that ask for the advanced model
C12_Witness ==
    /\ routed.op = "select"
    /\ PreferenceListed /\ AdvancedWanted
    /\ routed.request.model_preference = Some("gpt-4o")
    /\ routed.model_id = "gpt-4o"

\* ------------------------------------------------------------------------
\* Properties of ask_question
\* ------------------------------------------------------------------------
\* the entry a store holds under a key, as get_teaching_response reads it
Entry(store, key) ==
    IF is_production THEN Decode(store[key].value).value ELSE store[key]

\* the call whose step `done` describes has left ask_question
Left == done.raised # None \/ done.response # None

\* C13: a request the limiter rejects leaves ask_question with
\* RateLimitExceeded carrying retry_after (the window), after the admission
\* check alone: the router and the provider were not invoked, and the cache
\* entries, the hit and miss counters, the conversations, the usage records
\* and the tracked calls are what they were before the call
C13_RejectedTouchesNothingDownstream ==
    (done.raised # None /\ done.raised[1].class = "RateLimitExceeded") =>
        /\ done.raised[1].retry_after = window_seconds
        /\ done.response = None
        /\ done.steps = <<"check_limit">>
        /\ done.model_id = None
        /\ done.llm_response = None
        /\ Before = done.before

\* a rejection that follows a provider-served request: there are an entry, a
\* conversation and a usage record to leave alone
C13_Witness ==
    /\ done.raised # None
    /\ done.raised[1].class = "RateLimitExceeded"
    /\ CacheStore # EmptyDict
    /\ conversations # <<>>
    /\ usage_metrics # <<>>
    /\ generated > 0

\* the lookup of the call `done` describes was its last step
LookedUp == done.steps = <<"check_limit", "cache_get">>

\* that lookup returned an entry: the key was stored and no miss was counted
Found ==
    /\ GenerateCacheKey(done.request[1]) \in DOMAIN done.before.store
    /\ miss_count = done.before.miss_count

\* the fields a cache hit copies from the entry
CopiedFields == {"answer", "model_used", "tokens_used", "estimated_cost",
                 "confidence", "follow_up_suggestions", "learning_resources"}

\* C14: when the lookup of an admitted request returns an entry, ask_question
\* returns a response with source "cache" whose answer, model_used,
\* tokens_used, estimated_cost, confidence, follow_up_suggestions and
\* learning_resources are the entry's; the provider is not invoked, the cache
\* is not written, and no usage record, conversation or tracked call is added
C14_CacheHitCopiesEntry ==
    (LookedUp /\ Found) =>
        LET entry == Entry(done.before.store, GenerateCacheKey(done.request[1]))
        IN /\ done.response # None
           /\ done.raised = None
           /\ done.response[1].source = "cache"
           /\ \A f \in CopiedFields : done.response[1][f] = entry[f]
           /\ done.model_id = None
           /\ generated = done.before.generated
           /\ CacheStore = done.before.store
           /\ usage_metrics = done.before.usage_metrics
           /\ conversations = done.before.conversations
           /\ llm_calls = done.before.llm_calls

\* a hit on a Redis entry, for another student than the one the entry was
\* generated for, with a processing time that is not the entry's
C14_Witness ==
    /\ LookedUp
    /\ Found
    /\ is_production
    /\ done.response # None
    /\ done.response[1].processing_time_ms #
           Entry(done.before.store,
                 GenerateCacheKey(done.request[1])).processing_time_ms
    /\ \E i \in 1..Len(conversations) :
           conversations[i].student_id # done.request[1].student_id

\* the event track_llm_call is given when provider.generate raised `exc`
FailedCall(model_id, exc) ==
    [model |-> model_id, tokens_used |-> 0, cost |-> 0, success |-> FALSE,
     error |-> Some(exc.message)]

\* C15: when provider.generate raises, ask_question records one failed call
\* event (success = False) and the same error leaves ask_question, in every
\* configuration of the service, the one without a monitoring service included
C15_ProviderFailureRecordedAndReraised ==
    done.provider_raised # None =>
        /\ done.raised = done.provider_raised
        /\ done.response = None
        /\ llm_calls = Append(done.before.llm_calls,
                              FailedCall(done.model_id[1], done.provider_raised[1]))

\* the part that holds in every configuration: the same error leaves
\* ask_question, and nothing is stored or saved for the request
ProviderFailureReraised ==
    done.provider_raised # None =>
        /\ done.raised = done.provider_raised
        /\ done.response = None
        /\ done.steps = <<"check_limit", "cache_get", "generate">>

\* the part that holds with a monitoring service: the failed call is handed
\* to it
ProductionProviderFailureTracked ==
    (is_production /\ done.provider_raised # None) =>
        llm_calls = Append(done.before.llm_calls,
                           FailedCall(done.model_id[1], done.provider_raised[1]))

\* C16: once the provider has answered, no failure of a write-back step
\* (cache store, conversation save, usage recording) changes the outcome:
\* no exception leaves ask_question, and the call returns the computed response
C16_WriteBackBestEffort ==
    done.teaching_response # None =>
        /\ done.raised = None
        /\ done.response # None => done.response = done.teaching_response

\* the part that holds: a cache store that fails is not noticed by the call
CacheStoreFailureTolerated ==
    (done.steps = <<"check_limit", "cache_get", "generate", "cache_set">>) =>
        /\ done.raised = None
        /\ done.id \in DOMAIN asking

\* and with the in-memory database, which cannot fail, the claim holds
InMemoryWriteBackBestEffort ==
    (~is_production /\ done.teaching_response # None) =>
        /\ done.raised = None
        /\ done.response # None => done.response = done.teaching_response

\* the limiter rejected the call `done` describes
Rejected == done.raised # None /\ done.raised[1].class = "RateLimitExceeded"

\* C17: a request to the teach endpoint that the limiter rejects is reported
\* as HTTP 429 with retry_after equal to the window, never as a generic
\* internal failure
C17_RejectionReportedAs429 ==
    Rejected =>
        /\ done.http[1].status_code = 429
        /\ done.http[1].content.retry_after = window_seconds

\* what the endpoint does report: the 500 of the route's `except Exception`
RejectionReportedAs500 ==
    Rejected =>
        /\ done.http[1].status_code = 500
        /\ done.http[1].content =
               [detail |-> "Failed to generate response: " \o done.raised[1].message]

\* the handler of the application does answer 429 with the retry hint, for a
\* RateLimitExceeded that reaches it
RateLimitHandlerAnswers429 ==
    LET response == ExceptionHandler(RateLimitExceeded(limit, window_seconds))
    IN /\ response.status_code = 429
       /\ response.content.retry_after = window_seconds

\* an internal error left the call `done` describes
InternalError == done.raised # None /\ ~Rejected

\* the texts an internal error may carry
ErrorTexts == {e.message : e \in ProviderErrors} \cup {DatabaseError.message}

\* C18: an unexpected internal error is reported as an opaque internal
\* failure: the run that differs only in the text of the error sends the
\* same response
C18_InternalErrorOpaque ==
    InternalError =>
        \A text \in ErrorTexts :
            TeachEndpoint(Some([done.raised[1] EXCEPT !.message = text]), None)
                = done.http[1]

\* what the endpoint does send: status 500 with the text of the error in the
\* detail (400 for a ValueError)
InternalErrorTextInDetail ==
    InternalError =>
        /\ done.http[1].status_code =
               IF done.raised[1].class = "ValueError" THEN 400 ELSE 500
        /\ done.http[1].content =
               [detail |-> IF done.raised[1].class = "ValueError"
                           THEN done.raised[1].message
                           ELSE "Failed to generate response: "
                                \o done.raised[1].message]

\* the handler of the application is opaque, for an exception that reaches it
GeneralHandlerOpaque ==
    InternalError =>
        \A text \in ErrorTexts :
            ExceptionHandler([done.raised[1] EXCEPT !.message = text])
                = [status_code |-> 500,
                   content |-> [error |-> "internal_error",
                                message |-> "An internal error occurred"]]

\* the ask_question calls that returned a response the provider generated
ProviderServed == {id \in DOMAIN outcomes : outcomes[id] = "llm"}

\* the calls that were rejected, served from the cache, or failed
NotProviderServed ==
    {id \in DOMAIN outcomes : outcomes[id] \in {"rejected", "cache", "failed"}}

IsPrefix(a, b) == Len(a) <= Len(b) /\ SubSeq(b, 1, Len(a)) = a

\* C19: usage records are append-only and there is exactly one per
\* provider-served request: a call that returns with source "llm" appends one
\* record (identity, model id, tokens, cost) and leaves the earlier ones as
\* they were; a call that is rejected, served from the cache or failed
\* appends none
C19_OneUsageRecordPerProviderServedRequest ==
    /\ IsPrefix(done.before.usage_metrics, usage_metrics)
    /\ Len(usage_metrics) = Cardinality(ProviderServed)
    /\ done.id \in ProviderServed =>
           usage_metrics =
               Append(done.before.usage_metrics,
                      [user_id |-> done.request[1].student_id,
                       model |-> done.model_id[1],
                       tokens_used |-> done.llm_response[1].tokens_used,
                       cost |-> done.llm_response[1].cost,
                       timestamp |-> now])
    /\ done.id \in NotProviderServed =>
           usage_metrics = done.before.usage_metrics

\* a call served from the cache after a provider-served one: one record, of
\* the student the answer was generated for
C19_Witness ==
    /\ done.id \in NotProviderServed
    /\ outcomes[done.id] = "cache"
    /\ Len(usage_metrics) = 1
    /\ usage_metrics[1].user_id # done.request[1].student_id
    /\ usage_metrics[1].tokens_used > 0

\* ------------------------------------------------------------------------
\* Properties of the pure helpers
\* ------------------------------------------------------------------------
\* C20: whatever the length of the content, _calculate_confidence returns a
\* value in [0, 1]: in tenths 5 for a content shorter than 50 characters, 8
\* for one longer than 200 characters, and 7 otherwise
C20_ConfidenceByLength ==
    computed.op = "calculate_confidence" =>
        LET response_length == Len(computed.llm_response[1].content)
        IN /\ computed.result \in 0..10
           /\ computed.result = IF response_length < 50 THEN 5
                                ELSE IF response_length > 200 THEN 8
                                ELSE 7

\* a content of exactly 200 characters, the last length that is not raised
C20_Witness ==
    /\ computed.op = "calculate_confidence"
    /\ Len(computed.llm_response[1].content) = 200
    /\ computed.result = 7

EndsWith(s, suffix) ==
    /\ Len(s) >= Len(suffix)
    /\ SubSeq(s, Len(s) - Len(suffix) + 1, Len(s)) = suffix

HistoryBlock(history, first) ==
    Join([i \in 1..(Len(history) - first + 1) |->
              HistoryLine(history[first + i - 1])], "\n")

\* C26: the history is capped twice, keeping order: a TeachingRequest built
\* with more than 20 messages retains exactly the last 20, and the prompt
\* built from a request holds the last min(5, n) of its n retained messages,
\* in order, and none of the earlier ones
C26_HistoryCappedTwice ==
    /\ computed.op = "teaching_request" =>
           LET v == computed.fields.conversation_history
               kept == computed.result.conversation_history
           IN /\ Len(kept) = Min(20, Len(v))
              /\ \A i \in 1..Len(kept) : kept[i] = v[Len(v) - Len(kept) + i]
              /\ \A f \in (DOMAIN computed.fields) \ {"conversation_history"} :
                     computed.result[f] = computed.fields[f]
    /\ computed.op = "build_teaching_prompt" =>
           LET history == computed.request.conversation_history
               n == Len(history)
               k == Min(5, n)
           IN /\ n <= 20
              /\ \A i \in 1..n :
                     Contains(computed.result,
                              "\n" \o HistoryLine(history[i]) \o "\n")
                         <=> i > n - k
              /\ k > 0 =>
                     Contains(computed.result,
                              "Previous conversation:\n"
                              \o HistoryBlock(history, n - k + 1) \o "\n\n")
              /\ k = 0 => ~Contains(computed.result, "Previous conversation:")

\* a request built with more than 20 messages: its prompt holds messages of
\* the last five only, the first of which was not among the first 20
C26_Witness ==
    /\ computed.op = "build_teaching_prompt"
    /\ Len(computed.request.conversation_history) = 20
    /\ computed.request.conversation_history[1] = Message(MaxHistory - 20)
    /\ Contains(computed.result,
                "\n" \o HistoryLine(Message(MaxHistory - 1)) \o "\n")
    /\ ~Contains(computed.result, HistoryLine(Message(MaxHistory - 6)) \o "\n")

\* ------------------------------------------------------------------------
\* Further properties of the limiters
\* ------------------------------------------------------------------------
\* the timestamps a limiter holds for the identifier, each with the number of
\* times it is recorded: `recorded` is a value of Recorded(identifier), read
\* at time now
Timestamps(recorded) ==
    IF is_production
    THEN LET z == IF recorded[3] /\ (recorded[4].expire_at = NoExpiry
                                     \/ recorded[4].expire_at > now)
                  THEN recorded[4].zset ELSE EmptyDict
         IN [t \in Times |-> Cardinality({m \in DOMAIN z : z[m] = t})]
    ELSE [t \in Times |->
             Cardinality({i \in 1..Len(recorded[2]) : recorded[2][i] = t})]

\* what pruning at window_start leaves of them
Survivors(timestamps, window_start) ==
    [t \in Times |-> IF t > window_start THEN timestamps[t] ELSE 0]

\* C21: a rejected check_limit records nothing: after a rejected call the
\* identity's recorded timestamps are exactly those that survived pruning,
\* in both limiter implementations
C21_RejectedRecordsNothing ==
    (last.op = "check_limit" /\ ~last.allowed) =>
        Timestamps(Recorded(last.identifier)) =
            Survivors(Timestamps(last.recorded_before),
                      last.now - window_seconds)

\* the part that holds: InMemoryRateLimiter raises before it appends
InMemoryRejectedRecordsNothing ==
    (~is_production /\ last.op = "check_limit" /\ ~last.allowed) =>
        Timestamps(Recorded(last.identifier)) =
            Survivors(Timestamps(last.recorded_before),
                      last.now - window_seconds)

\* number of the timestamps later than window_start
CountAfter(timestamps, window_start) ==
    SumOver(timestamps, {t \in Times : t > window_start})

\* C24: the window's lower bound is exclusive: a recorded timestamp equal to
\* now - window_seconds is expired for check_limit and for get_remaining in
\* both implementations: it is not counted, and the call that prunes does not
\* keep it
C24_WindowLowerBoundExclusive ==
    LET window_start == last.now - window_seconds
        before == Timestamps(last.recorded_before)
        after == Timestamps(Recorded(last.identifier))
    IN /\ last.op = "check_limit" =>
              /\ last.allowed = ~LimitReached(CountAfter(before, window_start), limit)
              /\ \A t \in Times : t <= window_start => after[t] = 0
       /\ (last.op = "get_remaining" /\ ~is_production) =>
              last.remaining = Remaining(limit, CountAfter(after, window_start))
       /\ last.op = "zremrangebyscore" =>
              after = Survivors(before, window_start)
       /\ (last.op = "get_remaining" /\ is_production) =>
              last.remaining = Remaining(limit, CountAfter(after, -1))

\* a call was allowed although the limit would have been reached had the
\* timestamp equal to now - window_seconds been counted
C24_Witness ==
    /\ last.op = "check_limit"
    /\ last.allowed
    /\ last.now - window_seconds \in Times
    /\ Timestamps(last.recorded_before)[last.now - window_seconds] > 0
    /\ LimitReached(CountAfter(Timestamps(last.recorded_before),
                               last.now - window_seconds - 1), limit)

\* C27: in RedisRateLimiter every check_limit call adds its own entry to the
\* identity's sorted set, also when calls for the identity carry the same
\* timestamp: after a call the set holds one entry more than survived the
\* pruning, so a later call counts every call recorded inside the window
C27_EveryCallAddsItsOwnEntry ==
    (is_production /\ last.op = "check_limit") =>
        CountAfter(Timestamps(Recorded(last.identifier)),
                   last.now - window_seconds) =
            CountAfter(Timestamps(last.recorded_before),
                       last.now - window_seconds) + 1

\* the part that holds: a call whose timestamp no recorded call carries adds
\* its entry
RedisNewTimestampAddsEntry ==
    (/\ is_production
     /\ last.op = "check_limit"
     /\ Timestamps(last.recorded_before)[last.now] = 0) =>
        CountAfter(Timestamps(Recorded(last.identifier)),
                   last.now - window_seconds) =
            CountAfter(Timestamps(last.recorded_before),
                       last.now - window_seconds) + 1

\* the outcome a check_limit at time t would have for an identifier of which
\* the limiter has recorded `recorded`
WouldAllow(recorded, t) ==
    IF is_production
    THEN LET z == IF recorded[3] /\ (recorded[4].expire_at = NoExpiry
                                     \/ recorded[4].expire_at > t)
                  THEN recorded[4].zset ELSE EmptyDict
         IN ~LimitReached(Cardinality({m \in DOMAIN z : z[m] > t - window_seconds}),
                          limit)
    ELSE ~LimitReached(Len(RecentRequests(recorded[2], t - window_seconds)), limit)

\* C30: get_remaining agrees with check_limit and does not disturb it: for
\* the same identity, limit, window and time it returns more than 0 exactly
\* when a check_limit made right after it would be allowed, and it leaves the
\* outcome of every later check_limit as it was
C30_GetRemainingAgreesAndDoesNotDisturb ==
    /\ (last.op = "get_remaining" /\ last.pruned_at = now) =>
           /\ (last.remaining > 0) = NextCheckAllowed(last.identifier)
           /\ (last.remaining > 0) = WouldAllow(Recorded(last.identifier), now)
    /\ last.op \in {"get_remaining", "zremrangebyscore"} =>
           \A t \in now..MaxTime :
               WouldAllow(Recorded(last.identifier), t) =
                   WouldAllow(last.recorded_before, t)

\* RedisRateLimiter: get_remaining returned 0 under a positive limit after it
\* had removed an expired entry, and the next check_limit would be rejected
C30_Witness ==
    /\ is_production
    /\ last.op = "get_remaining"
    /\ last.pruned_at = now
    /\ limit > 0
    /\ last.remaining = 0
    /\ ~NextCheckAllowed(last.identifier)
    /\ now > 0

\* ------------------------------------------------------------------------
\* Further properties of ask_question
\* ------------------------------------------------------------------------
\* the awaits of ask_question in the order of its code
StepOrder ==
    <<"check_limit", "cache_get", "generate", "cache_set",
      "save_conversation", "track_usage">>

\* the calls that can have reached provider.generate
ReachedProvider ==
    {id \in DOMAIN outcomes :
        /\ outcomes[id] \notin {"rejected", "cache"}
        /\ id \in DOMAIN asking => Len(asking[id].steps) >= 3}

ProviderCalled == Len(done.steps) = 3

\* C28 as stated: once a store for a fingerprint has completed, every
\* admitted request for it whose lookup comes afterwards is served from the
\* cache without a provider call, and a provider call for the fingerprint
\* comes only from a request whose lookup came before the store completed
C28_ServedFromCacheAfterStore ==
    /\ (LookedUp /\ done.lookup[1].stored) =>
           /\ done.response # None
           /\ done.response[1].source = "cache"
           /\ generated = done.before.generated
    /\ ProviderCalled => ~done.lookup[1].stored

\* C28, amended: the same for every lookup that reaches the store; a lookup
\* of RedisCacheService during which the store cannot be reached is a miss,
\* and its request calls the provider although the entry is stored
C28_ServedFromCacheAfterStoreWhenReached ==
    /\ (LookedUp /\ done.lookup[1].stored /\ ~done.lookup[1].failed) =>
           /\ done.response # None
           /\ done.response[1].source = "cache"
           /\ generated = done.before.generated
    /\ (LookedUp /\ done.lookup[1].stored /\ done.lookup[1].failed) =>
           /\ is_production
           /\ done.response = None
           /\ done.model_id # None
    /\ ProviderCalled =>
           \/ ~done.lookup[1].stored
           \/ is_production /\ done.lookup[1].failed

\* the same without store failures: InMemoryCacheService
InMemoryServedFromCacheAfterStore ==
    ~is_production => C28_ServedFromCacheAfterStore

\* a second provider call for a fingerprint after a store for it completed,
\* by a request that had looked up before the store
C28_Witness ==
    /\ ProviderCalled
    /\ generated = 2
    /\ Fields(done.request[1]) \in DOMAIN written
    /\ ~done.lookup[1].stored
    /\ ~done.lookup[1].failed

\* C29: the cached response a request receives depends only on (subject,
\* grade_level, model_preference or "default", question): requests that agree
\* on these four fields look up the same entry, and a cache hit returns the
\* answer that was stored for them, whichever student, conversation history
\* and additional context it was generated for
C29_CachedAnswerDependsOnFourFieldsOnly ==
    /\ \A pair \in {p \in SUBSET AskRequests : Cardinality(p) = 2} :
           LET r1 == CHOOSE r \in pair : TRUE
               r2 == CHOOSE r \in pair : r # r1
           IN Fields(r1) = Fields(r2) =>
                  /\ GenerateCacheKey(r1) = GenerateCacheKey(r2)
                  /\ CacheGet(r1, FALSE).result = CacheGet(r2, FALSE).result
    /\ (LookedUp /\ done.response # None) =>
           /\ Fields(done.request[1]) \in DOMAIN written
           /\ LET stored == written[Fields(done.request[1])]
              IN /\ Fields(stored.request) = Fields(done.request[1])
                 /\ \A g \in CopiedFields :
                        done.response[1][g] = stored.response[g]

\* a student without history or context is served the answer that was
\* generated for another student, with a history and a context
C29_Witness ==
    /\ LookedUp
    /\ done.response # None
    /\ done.response[1].source = "cache"
    /\ LET stored == written[Fields(done.request[1])]
       IN /\ stored.request.student_id # done.request[1].student_id
          /\ stored.request.conversation_history # <<>>
          /\ done.request[1].conversation_history = <<>>
          /\ stored.request.additional_context # None
          /\ done.request[1].additional_context = None
          /\ done.response[1].answer = stored.response.answer

====
